---- MODULE Spec2Model ----
(***************************************************************************)
(* A model of CipherScan (arpitgupta-it/cipherscan), a VS Code extension   *)
(* that scans the files of a workspace for exposed secrets.                *)
(*                                                                         *)
(* The module holds several specifications over one set of variables:      *)
(*   Spec       the extension, its scan command and scanWorkspace in one   *)
(*              extension host                                             *)
(*   SpecCache  the log deduplication cache (isDuplicate)                  *)
(*   SpecRedact the redaction of a finding's secret in report, log, state  *)
(*   SpecScanner the pattern registry and scanFileContent on one file      *)
(*   SpecLog    logMessage and withFileLock, called by several processes   *)
(*              that share one log file                                    *)
(*   SpecLock   withFileLock with a lock file left behind and a callback   *)
(*              that throws; SpecLockFair adds the fairness of a writer    *)
(*   SpecReport the summary and detail tables of generateReport            *)
(*   SpecHandler the command handler around an awaited scan;               *)
(*              SpecHandlerFair adds that the awaited scan settles         *)
(*   SpecHost   the log lines of activate, deactivate and addToGitIgnore   *)
(* A specification leaves the variables of the other parts at their        *)
(* initial values.                                                         *)
(***************************************************************************)
EXTENDS Integers, Sequences, FiniteSets, TLC

VARIABLES
    recentLogHashes,  \* loggingUtils.ts:8, one Set<string> per process, in insertion order
    insertLog,        \* history: the messages isDuplicate inserted, in order
    hitLog,           \* history: the messages isDuplicate found in the cache
    lastCall,         \* history: the last isDuplicate call, its result and the cache before it
    now,              \* the wall clock, in milliseconds (new Date())
    workspaceOpen,    \* per process: workspace.workspaceFolders is set
    logFile,          \* the active log file .cipherscan/exposed-secrets.log
    archives,         \* the rotated log files secrets-<timestamp>.log
    lockFile,         \* the lock file <log path>.lock exists
    wpc,              \* per process: where its logMessage call stands
    wline,            \* per process: finalMessage of its logMessage call
    wcall,            \* per process: what its current or last logMessage call did and read
    logCalls,         \* history: the number of logMessage calls made
    revision,         \* which revision of scanWorkspace runs: "old" or "new"
    files,            \* what vscode.workspace.findFiles finds in the workspace
    extension,        \* the extension: "inactive", "active", "deactivated", or "failed" to activate
    isScanning,       \* the scanning flag of the extension
    req,              \* per invocation of the scan command: its state and history
    reportFile,       \* the report file last written
    finding,          \* SpecRedact: the finding that is reported and logged
    reportDoc,        \* SpecRedact: the values of the finding's row in the report
    logTexts,         \* SpecRedact: the messages logged for the finding
    savedState,       \* SpecRedact: the values saved in the global state
    reportSecrets,    \* SpecReport: the findings handed to generateReport
    report,           \* SpecReport: the tables generateReport made of them
    customPatterns,   \* the setting cipherscan.customPatterns: {name, regex} entries
    secretPatterns,   \* the module detectors/secretPatterns: not loaded, loaded or failed
    content,          \* the text of the file handed to scanFileContent
    scanResult        \* what scanFileContent returned and what the scan accumulated

cacheVars == <<recentLogHashes, insertLog, hitLog, lastCall>>
fsVars == <<now, logFile, archives, lockFile>>
writerVars == <<workspaceOpen, wpc, wline, wcall, logCalls>>

scanVars == <<revision, files, extension, isScanning, req, reportFile>>

redactVars == <<finding, reportDoc, logTexts, savedState, reportSecrets, report>>

scannerVars == <<customPatterns, secretPatterns, content, scanResult>>

vars == <<cacheVars, fsVars, writerVars, scanVars, redactVars, scannerVars>>

(***************************************************************************)
(* Bounds of the model and constants of the program.                       *)
(***************************************************************************)
MAX_LOG_CACHE == 100

maxLogSize == 1048576

NumProcs == 2
MaxInserts == 103
MaxClock == 1
MaxLogCalls == 3
MaxFiles == 2
MaxRequests == 2
MaxSecretLen == 11
MaxLines == 2
MaxUserPatterns == 2
MaxFindings == 3

\* The number of logMessage calls of the command handlers that throw.
MaxLogFailures == 1

Procs == 1..NumProcs

Range(s) == {s[i] : i \in 1..Len(s)}

(***************************************************************************)
(* The deduplication cache: createHash and isDuplicate.                    *)
(***************************************************************************)

\* SHA-256 of the message as hex. Modelled without collisions: the digest of
\* a message is the message under a tag, so two digests are equal exactly
\* when the messages are.
createHash(message) == <<"sha256", message>>

\* recentLogHashes.has(messageHash)
CacheHas(cache, messageHash) == messageHash \in Range(cache)

\* Mutants of the cache update (used to show the claims depend on it).
CacheAfterNoEvict(cache, message) ==
    IF CacheHas(cache, createHash(message)) THEN cache
    ELSE Append(cache, createHash(message))

CacheAfterEvictAtCapacity(cache, message) ==
    IF CacheHas(cache, createHash(message)) THEN cache
    ELSE LET added == Append(cache, createHash(message))
         IN  IF Len(added) >= MAX_LOG_CACHE THEN Tail(added) ELSE added

CacheAfterRefreshOnHit(cache, message) ==
    LET h == createHash(message)
        others == SelectSeq(cache, LAMBDA x : x # h)
        added == Append(others, h)
    IN  IF Len(added) > MAX_LOG_CACHE THEN Tail(added) ELSE added

\* The cache after isDuplicate(message): unchanged on a hit; otherwise the
\* hash is added at the end and, when the size then exceeds MAX_LOG_CACHE,
\* the first value of the Set's iteration order (the oldest) is deleted.
CacheAfter(cache, message) ==
    IF CacheHas(cache, createHash(message)) THEN cache
    ELSE LET added == Append(cache, createHash(message))
         IN  IF Len(added) > MAX_LOG_CACHE THEN Tail(added) ELSE added

\* The value isDuplicate(message) returns.
isDuplicate(cache, message) == CacheHas(cache, createHash(message))

NoCall == [message |-> "", ret |-> FALSE, before |-> <<>>, between |-> -1]

CacheInit ==
    /\ recentLogHashes = [p \in Procs |-> <<>>]
    /\ insertLog = <<>>
    /\ hitLog = {}
    /\ lastCall = NoCall

CacheIdle == UNCHANGED <<insertLog, hitLog, lastCall>>

(***************************************************************************)
(* The log sink: logMessage and withFileLock.                              *)
(***************************************************************************)
RECURSIVE SumLen(_)
SumLen(lines) == IF lines = <<>> THEN 0 ELSE Len(Head(lines)) + SumLen(Tail(lines))

\* A file that does not exist.
NoFile == [exists |-> FALSE, base |-> 0, lines |-> <<>>]

\* fs.existsSync(path) ? fs.statSync(path).size : 0, in bytes: the bytes the
\* file held when the model starts plus the lines appended since.
FileSize(file) == IF file.exists THEN file.base + SumLen(file.lines) ELSE 0

\* new Date().toISOString() at clock value t: 24 characters.
Timestamp(t) == "2024-11-24T11:35:24.40" \o ToString(t) \o "Z"

\* level.toUpperCase()
ToUpperCase(level) ==
    CASE level = "info" -> "INFO"
      [] level = "debug" -> "DEBUG"
      [] level = "error" -> "ERROR"
      [] level = "warning" -> "WARNING"

\* finalMessage of logMessage for a string message.
FinalMessage(t, level, message) ==
    "[" \o Timestamp(t) \o "] [" \o ToUpperCase(level) \o "] " \o message \o "\n"

\* The rotation test of logMessage.
NeedsRotation(file) == FileSize(file) > maxLogSize

\* `secrets-${timestamp}.log` with the colons of the timestamp replaced.
ArchiveName(t) == "secrets-2024-11-24T11-35-24.40" \o ToString(t) \o "Z.log"

\* fs.renameSync(logFilePath, archivedLogFilePath): the archive of that name,
\* if there is one, is replaced.
RenameToArchive(arch, name, file) ==
    Append(SelectSeq(arch, LAMBDA a : a.name # name), [name |-> name, file |-> file])

ArchivesAfterRotation(arch, file, t) ==
    IF NeedsRotation(file) THEN RenameToArchive(arch, ArchiveName(t), file) ELSE arch

LogFileAfterRotation(file) == IF NeedsRotation(file) THEN NoFile ELSE file

\* fs.appendFileSync(logFilePath, finalMessage): creates the file when missing.
AppendFile(file, line) ==
    [exists |-> TRUE, base |-> file.base, lines |-> Append(file.lines, line)]

\* Mutant: logMessage goes on to the lock and the append whatever isDuplicate said.
AfterDuplicateCheckAlways(dup) == "spin"

\* logMessage after isDuplicate(finalMessage): a duplicate ends the call, any
\* other line goes to withFileLock.
AfterDuplicateCheck(dup) == IF dup THEN "idle" ELSE "spin"

\* The sizes the log file can have when the model starts: missing, exactly at
\* the rotation threshold, and one byte above it.
InitialLogFiles ==
    {NoFile,
     [exists |-> TRUE, base |-> maxLogSize, lines |-> <<>>],
     [exists |-> TRUE, base |-> maxLogSize + 1, lines |-> <<>>]}

\* Mutant: withFileLock gives up when the lock file exists.
AfterExistsSyncGivesUp(exists) == IF exists THEN "idle" ELSE "create"

\* while (!lockAcquired) { if (!fs.existsSync(lockFilePath)) ... }: the loop
\* tests again for as long as the lock file exists; it has no other exit.
AfterExistsSync(exists) == IF exists THEN "spin" ELSE "create"

\* Mutant: an error of the callback leaves withFileLock at once.
AfterCallbackPropagates(threw) == IF threw THEN "idle" ELSE "release"

\* try { callback() } catch { console.error } finally { removeSync }: the
\* lock file is removed whether the callback returned or threw.
AfterCallback(threw) == "release"

\* What a logMessage call did: size and rotated are the size of the log file
\* the call found and whether it renamed the file, waited says the call
\* found the lock file present, threw that its callback threw. failed says
\* getLogFilePath threw, so that logMessage threw; statThrew that statSync
\* threw, which logMessage catches; done that logMessage has returned.
NoLogCall == [asked |-> FALSE, dup |-> FALSE, locks |-> 0, appended |-> 0, done |-> FALSE,
              size |-> 0, rotated |-> FALSE, waited |-> FALSE, threw |-> FALSE,
              failed |-> FALSE, statThrew |-> FALSE, archive |-> "", created |-> 0,
              removeThrew |-> FALSE]

LogInit ==
    /\ now = 0
    /\ workspaceOpen = [p \in Procs |-> TRUE]
    /\ logFile = NoFile
    /\ archives = <<>>
    /\ lockFile = FALSE
    /\ wpc = [p \in Procs |-> "idle"]
    /\ wline = [p \in Procs |-> ""]
    /\ wcall = [p \in Procs |-> NoLogCall]
    /\ logCalls = 0

(***************************************************************************)
(* SpecRedact: what the report, the log and the persisted state hold of a  *)
(* finding's secret. Texts are sequences of characters here, so that       *)
(* slicing and containment are what they are in the program.               *)
(***************************************************************************)
SecretChars == {"x", "y"}

Secrets == UNION {[1..n -> SecretChars] : n \in 1..MaxSecretLen}

Min(a, b) == IF a < b THEN a ELSE b
Max(a, b) == IF a > b THEN a ELSE b

\* s.slice(0, n)
SliceFirst(s, n) == SubSeq(s, 1, Min(n, Len(s)))

\* s.slice(-n)
SliceLast(s, n) == SubSeq(s, Max(1, Len(s) - n + 1), Len(s))

\* getPartialSecret(secret): `${secret.slice(0, 6)}...${secret.slice(-4)}`
getPartialSecret(secret) == SliceFirst(secret, 6) \o <<".", ".", ".">> \o SliceLast(secret, 4)

DigitChar(d) == <<"0", "1", "2", "3", "4", "5", "6", "7", "8", "9">>[d + 1]

RECURSIVE Digits(_)
Digits(n) == IF n < 10 THEN <<DigitChar(n)>> ELSE Digits(n \div 10) \o <<DigitChar(n % 10)>>

\* Mutant: a secret of 50 characters is High already.
getSeverityDetailsFromFifty(secret) ==
    [severity |-> IF Len(secret) >= 50 THEN <<"H", "i", "g", "h">>
                  ELSE <<"M", "e", "d", "i", "u", "m">>,
     riskScore |-> Len(secret) * 2]

\* getSeverityDetails(secret)
getSeverityDetails(secret) ==
    [severity |-> IF Len(secret) > 50 THEN <<"H", "i", "g", "h">>
                  ELSE <<"M", "e", "d", "i", "u", "m">>,
     riskScore |-> Len(secret) * 2]

RedactPattern == <<"G", "e", "n", "e", "r", "i", "c", " ", "S", "e", "c", "r", "e", "t">>
RedactPath == <<"/", "w", "/", "R", "E", "A", "D", "M", "E">>

\* A finding with secret s.
RedactFinding(s) ==
    [secret |-> s, lineNumber |-> 7, patternName |-> RedactPattern, filePath |-> RedactPath]

\* One row of generateFileDetails: the values the template interpolates.
ReportRow(f) ==
    <<Digits(f.lineNumber), f.patternName, getPartialSecret(f.secret),
      getSeverityDetails(f.secret).severity, Digits(getSeverityDetails(f.secret).riskScore)>>

\* formattedMessage of logMessage for a { secret, lineNumber } message:
\* getPartialSecret(`Secret: ${message.secret}, Line: ${message.lineNumber}`)
FormatObjectMessage(f) ==
    getPartialSecret(<<"S", "e", "c", "r", "e", "t", ":", " ">> \o f.secret
                     \o <<",", " ", "L", "i", "n", "e", ":", " ">> \o Digits(f.lineNumber))

\* `Secret detected: ${patternName} at line ${lineNumber} in ${filePath}`
FormatDetectedMessage(f) ==
    <<"S", "e", "c", "r", "e", "t", " ", "d", "e", "t", "e", "c", "t", "e", "d", ":", " ">>
    \o f.patternName \o <<" ", "a", "t", " ", "l", "i", "n", "e", " ">> \o Digits(f.lineNumber)
    \o <<" ", "i", "n", " ">> \o f.filePath

\* The values of a finding's metadata, as saved in the global state.
MetadataTexts(f) == <<Digits(f.lineNumber), f.patternName, f.filePath>>

\* text holds s as a contiguous part.
Contains(text, s) ==
    \E j \in 0..(Len(text) - Len(s)) : SubSeq(text, j + 1, j + Len(s)) = s

NoTables == [done |-> FALSE, summary |-> <<>>, details |-> <<>>]

RedactIdleInit ==
    /\ finding = RedactFinding(<<"x">>)
    /\ reportDoc = <<>>
    /\ logTexts = <<>>
    /\ savedState = <<>>
    /\ reportSecrets = <<>>
    /\ report = NoTables

RedactInit ==
    /\ finding \in {RedactFinding(s) : s \in Secrets}
    /\ reportDoc = <<>>
    /\ logTexts = <<>>
    /\ savedState = <<>>
    /\ reportSecrets = <<>>
    /\ report = NoTables

\* generateReport with the finding: its detail row goes to the document.
GenerateReport ==
    /\ reportDoc = <<>>
    /\ reportDoc' = ReportRow(finding)
    /\ UNCHANGED <<finding, logTexts, savedState, reportSecrets, report>>
    /\ UNCHANGED <<cacheVars, fsVars, writerVars, scanVars, scannerVars>>

\* logMessage({ secret, lineNumber }, level)
LogFindingObject ==
    /\ FormatObjectMessage(finding) \notin Range(logTexts)
    /\ logTexts' = Append(logTexts, FormatObjectMessage(finding))
    /\ UNCHANGED <<finding, reportDoc, savedState, reportSecrets, report>>
    /\ UNCHANGED <<cacheVars, fsVars, writerVars, scanVars, scannerVars>>

\* logMessage(`Secret detected: ...`, 'warning') of handleDetectedSecrets
LogDetected ==
    /\ FormatDetectedMessage(finding) \notin Range(logTexts)
    /\ logTexts' = Append(logTexts, FormatDetectedMessage(finding))
    /\ UNCHANGED <<finding, reportDoc, savedState, reportSecrets, report>>
    /\ UNCHANGED <<cacheVars, fsVars, writerVars, scanVars, scannerVars>>

\* context.globalState.update('currentSecrets', secretsMetadata)
SaveMetadata ==
    /\ savedState = <<>>
    /\ savedState' = MetadataTexts(finding)
    /\ UNCHANGED <<finding, reportDoc, logTexts, reportSecrets, report>>
    /\ UNCHANGED <<cacheVars, fsVars, writerVars, scanVars, scannerVars>>

(***************************************************************************)
(* SpecReport: the tables of generateReport for the findings of several    *)
(* files.                                                                  *)
(***************************************************************************)

\* secrets.reduce(...): each finding with its severity and risk score.
Enriched(f) ==
    [secret |-> f.secret, lineNumber |-> f.lineNumber, patternName |-> f.patternName,
     filePath |-> f.filePath, severity |-> getSeverityDetails(f.secret).severity,
     riskScore |-> getSeverityDetails(f.secret).riskScore]

\* The keys of secretsByFile in the order Object.entries gives them: the
\* file paths in the order of their first finding.
FilePathsOf(list) ==
    LET first == {i \in 1..Len(list) : \A j \in 1..(i - 1) : list[j].filePath # list[i].filePath}
        nth[k \in 1..Cardinality(first)] ==
            CHOOSE i \in first : Cardinality({j \in first : j < i}) = k - 1
    IN  [k \in 1..Cardinality(first) |-> list[nth[k]].filePath]

\* secretsByFile[filePath]: the enriched findings of one file, in order.
secretsByFile(list, filePath) ==
    SelectSeq([i \in 1..Len(list) |-> Enriched(list[i])], LAMBDA f : f.filePath = filePath)

\* severityCounts[severity] after the forEach over the findings of a file.
severityCounts(fileSecrets, severity) ==
    Cardinality({i \in 1..Len(fileSecrets) : fileSecrets[i].severity = severity})

\* generateFileSummary(fileSecrets): the values of the row of one file.
generateFileSummary(fileSecrets) ==
    [filePath |-> fileSecrets[1].filePath,
     count |-> Len(fileSecrets),
     High |-> severityCounts(fileSecrets, <<"H", "i", "g", "h">>),
     Medium |-> severityCounts(fileSecrets, <<"M", "e", "d", "i", "u", "m">>),
     Low |-> severityCounts(fileSecrets, <<"L", "o", "w">>)]

\* The lengths of the secrets reported: around the limit of 50 characters.
SecretLengths == {6, 50, 51, 60}
ReportPaths == {<<"a">>, <<"b">>}

ReportFindings ==
    {[secret |-> [i \in 1..n |-> "x"], lineNumber |-> 7, patternName |-> RedactPattern,
      filePath |-> path] : n \in SecretLengths, path \in ReportPaths}

\* generateReport(secrets, ...) for a list that is not empty: the summary
\* row of each file and the detail rows of its findings.
GenerateReportTables ==
    /\ ~report.done
    /\ reportSecrets # <<>>
    /\ LET paths == FilePathsOf(reportSecrets)
       IN  report' =
               [done |-> TRUE,
                summary |-> [k \in 1..Len(paths) |->
                                generateFileSummary(secretsByFile(reportSecrets, paths[k]))],
                details |-> [k \in 1..Len(paths) |-> secretsByFile(reportSecrets, paths[k])]]
    /\ UNCHANGED <<finding, reportDoc, logTexts, savedState, reportSecrets>>
    /\ UNCHANGED <<cacheVars, fsVars, writerVars, scanVars, scannerVars>>

(***************************************************************************)
(* The pattern registry (detectors/secretPatterns) and the content scanner *)
(* (scanFileContent). Texts are sequences of characters. A regular         *)
(* expression is a sequence of pieces, each a character class with a       *)
(* greedy repetition range, and a list of capture groups, each a range of  *)
(* pieces. This covers the expressions of the registry used here; matching *)
(* is leftmost, greedy, with backtracking, as in JavaScript.               *)
(***************************************************************************)
Digit == {"0", "1", "2", "3", "4", "5", "6", "7", "8", "9"}
Upper == {"A", "B", "C", "D", "E", "F", "G", "H", "I", "J", "K", "L", "M",
          "N", "O", "P", "Q", "R", "S", "T", "U", "V", "W", "X", "Y", "Z"}
Lower == {"a", "b", "c", "d", "e", "f", "g", "h", "i", "j", "k", "l", "m",
          "n", "o", "p", "q", "r", "s", "t", "u", "v", "w", "x", "y", "z"}
WordChar == Digit \cup Upper \cup Lower \cup {"_"}
Whitespace == {" ", "\t"}

\* One piece of an expression: max < 0 is 'no upper limit'.
Rep(cls, lo, hi) == [any |-> FALSE, chars |-> cls, min |-> lo, max |-> hi]
AnyRep(lo, hi) == [any |-> TRUE, chars |-> {}, min |-> lo, max |-> hi]
Lit(text) == [j \in 1..Len(text) |-> Rep({text[j]}, 1, 1)]

\* Character c is in the class of the piece ('.' is any character but a
\* line terminator).
InClass(c, piece) == IF piece.any THEN c # "\n" ELSE c \in piece.chars

\* The number of characters of s from offset pos on that the piece can take,
\* counted from n.
RECURSIVE RunLength(_, _, _, _)
RunLength(piece, s, pos, n) ==
    IF /\ pos + n < Len(s)
       /\ (piece.max < 0 \/ n < piece.max)
       /\ InClass(s[pos + n + 1], piece)
    THEN RunLength(piece, s, pos, n + 1)
    ELSE n

NoMatch == [ok |-> FALSE, ends |-> <<>>]

\* Pieces k.. of the expression matched against s from offset pos: the
\* offsets where each piece ends, in the first way the backtracking matcher
\* finds (each piece takes as much as it can, then gives back).
RECURSIVE MatchFrom(_, _, _, _), TryCount(_, _, _, _, _)
MatchFrom(pieces, k, s, pos) ==
    IF k > Len(pieces) THEN [ok |-> TRUE, ends |-> <<>>]
    ELSE TryCount(pieces, k, s, pos, RunLength(pieces[k], s, pos, 0))

TryCount(pieces, k, s, pos, n) ==
    IF n < pieces[k].min THEN NoMatch
    ELSE LET rest == MatchFrom(pieces, k + 1, s, pos + n)
         IN  IF rest.ok THEN [ok |-> TRUE, ends |-> <<pos + n>> \o rest.ends]
             ELSE TryCount(pieces, k, s, pos, n - 1)

\* The leftmost match of the expression in s, tried from offset start on.
RECURSIVE ExecFrom(_, _, _)
ExecFrom(pieces, s, start) ==
    IF start > Len(s) THEN [ok |-> FALSE, start |-> 0, ends |-> <<>>]
    ELSE LET m == MatchFrom(pieces, 1, s, start)
         IN  IF m.ok THEN [ok |-> TRUE, start |-> start, ends |-> m.ends]
             ELSE ExecFrom(pieces, s, start + 1)

\* The offset where piece j of match m ends (j = 0: where the match starts).
Bound(m, j) == IF j = 0 THEN m.start ELSE m.ends[j]

\* The element of a match array for a capture group that took no part in the
\* match: undefined, which is no text.
Undefined == <<"undefined">>

\* line.match(regex) for an expression without the g flag: <<>> for null,
\* else the matched text followed by the text of each capture group. The
\* groups in regex.optional are of the form (...)? and are undefined when
\* they matched nothing.
match(line, regex) ==
    LET m == ExecFrom(regex.pieces, line, 0)
    IN  IF ~m.ok THEN <<>>
        ELSE <<SubSeq(line, m.start + 1, Bound(m, Len(regex.pieces)))>> \o
             [g \in 1..Len(regex.groups) |->
                 LET from == Bound(m, regex.groups[g][1] - 1)
                     to == Bound(m, regex.groups[g][2])
                 IN  IF g \in regex.optional /\ from = to THEN Undefined
                     ELSE SubSeq(line, from + 1, to)]

\* The texts of all occurrences of the expression in s from offset start on,
\* as a search with the g flag finds them (String.prototype.matchAll).
RECURSIVE AllOccurrences(_, _, _)
AllOccurrences(pieces, s, start) ==
    LET m == ExecFrom(pieces, s, start)
        end == Bound(m, Len(pieces))
    IN  IF ~m.ok THEN {}
        ELSE {SubSeq(s, m.start + 1, end)} \cup
             AllOccurrences(pieces, s, IF end = m.start THEN end + 1 ELSE end)

\* String.prototype.trim (the texts here hold no other white space than
\* blanks and tabs).
RECURSIVE trimStart(_)
trimStart(s) == IF s # <<>> /\ Head(s) \in Whitespace THEN trimStart(Tail(s)) ELSE s

RECURSIVE trimEnd(_)
trimEnd(s) ==
    IF s # <<>> /\ s[Len(s)] \in Whitespace THEN trimEnd(SubSeq(s, 1, Len(s) - 1)) ELSE s

trim(s) == trimEnd(trimStart(s))

startsWith(s, prefix) == Len(s) >= Len(prefix) /\ SubSeq(s, 1, Len(prefix)) = prefix

\* The first position of s that holds one of seps, from position j on; 0 if none.
RECURSIVE IndexOfAny(_, _, _)
IndexOfAny(s, seps, j) ==
    IF j > Len(s) THEN 0
    ELSE IF s[j] \in seps THEN j ELSE IndexOfAny(s, seps, j + 1)

\* s.split(separator) for a separator that is one character of seps.
RECURSIVE split(_, _)
split(s, seps) ==
    LET j == IndexOfAny(s, seps, 1)
    IN  IF j = 0 THEN <<s>>
        ELSE <<SubSeq(s, 1, j - 1)>> \o split(SubSeq(s, j + 1, Len(s)), seps)

\* lines.join('\n'): the text of a file with these lines.
RECURSIVE join(_)
join(lines) ==
    IF Len(lines) = 0 THEN <<>>
    ELSE IF Len(lines) = 1 THEN lines[1]
    ELSE lines[1] \o <<"\n">> \o join(Tail(lines))

\* The built-in entries of secretPatterns that a line of the texts used here
\* can match (the other entries need a prefix or a length no such line has).
Cloudinary ==
    [name |-> "Cloudinary",
     regex |-> [pieces |-> Lit(<<"c", "l", "o", "u", "d", "i", "n", "a", "r", "y", ":", "/", "/">>)
                               \o <<AnyRep(0, -1)>>,
                groups |-> <<>>, optional |-> {}]]

AkiaRegex == [pieces |-> Lit(<<"A", "K", "I", "A">>) \o <<Rep(Digit \cup Upper, 16, 16)>>,
              groups |-> <<>>, optional |-> {}]

AmazonAwsAccessKeyId == [name |-> "Amazon AWS Access Key ID", regex |-> AkiaRegex]
AwsApiKey == [name |-> "AWS API Key", regex |-> AkiaRegex]

BuiltinPatterns == <<Cloudinary, AmazonAwsAccessKeyId, AwsApiKey>>

\* Entries of the setting cipherscan.customPatterns: a name and the source of
\* a regular expression.
TokenSource == "token=(\\w+)"
IdSource == "id[0-9]+"
BadSource == "("
OptionalSource == "key=\\w+(!)?"

TokenPattern == [name |-> "Token", regex |-> TokenSource]
IdPattern == [name |-> "Id", regex |-> IdSource]
BadPattern == [name |-> "Bad", regex |-> BadSource]
OptionalPattern == [name |-> "Key", regex |-> OptionalSource]

\* new RegExp(source) for the sources above: whether it compiles, and the
\* expression it gives. An unterminated group is a SyntaxError.
RegExpOf(source) ==
    CASE source = TokenSource ->
            [ok |-> TRUE,
             regex |-> [pieces |-> Lit(<<"t", "o", "k", "e", "n", "=">>)
                                       \o <<Rep(WordChar, 1, -1)>>,
                        groups |-> << <<7, 7>> >>, optional |-> {}]]
      [] source = IdSource ->
            [ok |-> TRUE,
             regex |-> [pieces |-> Lit(<<"i", "d">>) \o <<Rep(Digit, 1, -1)>>,
                        groups |-> <<>>, optional |-> {}]]
      [] source = OptionalSource ->
            [ok |-> TRUE,
             regex |-> [pieces |-> Lit(<<"k", "e", "y", "=">>)
                                       \o <<Rep(WordChar, 1, -1), Rep({"!"}, 0, 1)>>,
                        groups |-> << <<6, 6>> >>, optional |-> {1}]]
      [] OTHER -> [ok |-> FALSE, regex |-> [pieces |-> <<>>, groups |-> <<>>, optional |-> {}]]

NotLoaded == [state |-> "unloaded", patterns |-> <<>>]

\* userPatterns.map(p => ({ name: p.name, regex: new RegExp(p.regex) }))
MapUserPatterns(userPatterns) ==
    [j \in 1..Len(userPatterns) |->
        [name |-> userPatterns[j].name, regex |-> RegExpOf(userPatterns[j].regex).regex]]

\* The evaluation of the module secretPatterns: the array literal holds the
\* built-in entries followed by the mapped user entries. new RegExp throws
\* inside the literal for a source that does not compile, so the module
\* then exports nothing.
LoadSecretPatterns(userPatterns) ==
    IF \E j \in 1..Len(userPatterns) : ~RegExpOf(userPatterns[j].regex).ok
    THEN [state |-> "failed", patterns |-> <<>>]
    ELSE [state |-> "loaded", patterns |-> BuiltinPatterns \o MapUserPatterns(userPatterns)]

\* Mutant: only a leading // suppresses a line.
isInCommentOrStringSlashOnly(text, lineNumber) ==
    startsWith(trim(split(text, {"\n"})[lineNumber]), <<"/", "/">>)

\* isInCommentOrString(content, lineNumber)
isInCommentOrString(text, lineNumber) ==
    LET lines == split(text, {"\n"})
        line == lines[lineNumber]
    IN  \/ startsWith(trim(line), <<"/", "/">>)
        \/ startsWith(trim(line), <<"#">>)
        \/ Contains(line, <<"/", "*">>)
        \/ Contains(line, <<"*", "/">>)
        \/ Contains(line, <<"\"", "\"", "\"">>)
        \/ Contains(line, <<"'", "'", "'">>)

\* Mutant: the length check lets a match of 5 characters pass.
LongEnoughFromFive(m) == Len(m) >= 5

\* if (match.length > 5)
LongEnough(m) == Len(m) > 5

\* match.split(/[=:]/)[1]?.trim() || match.trim()
SecretOf(m) ==
    LET parts == split(m, {"=", ":"})
        second == IF Len(parts) >= 2 THEN trim(parts[2]) ELSE <<>>
    IN  IF second # <<>> THEN second ELSE trim(m)

NoFindings == [detectedSecrets |-> <<>>, uniqueSecrets |-> {}, caught |-> {}]

\* Mutant: no match is taken as already recorded.
UniqueHasNever(uniqueSecrets, uniqueKey) == FALSE

\* uniqueSecrets.has(uniqueKey): the key `${match}_${index + 1}` is the pair
\* of the matched text and the line number.
UniqueHas(uniqueSecrets, uniqueKey) == uniqueKey \in uniqueSecrets

\* Mutant: the key of a match names the pattern as well.
UniqueKeyPerPattern(m, lineNumber, pattern) == <<m, lineNumber, pattern.name>>

\* `${match}_${index + 1}`: the key under which uniqueSecrets remembers a
\* match; the pattern in scope is no part of it.
UniqueKey(m, lineNumber, pattern) == <<m, lineNumber>>

\* catch (error) { }: the error of one pattern on one line is dropped; what
\* was pushed before it stays (caught records the pattern and the line).
OnFailure(acc, pattern, lineNumber) ==
    [acc EXCEPT !.caught = @ \cup {<<pattern.name, lineNumber>>}]

\* matches.forEach(match => ...) from element j on, for the line with number
\* lineNumber: acc holds detectedSecrets and uniqueSecrets. match.length of
\* an undefined element throws a TypeError, which ends the forEach and is
\* caught by the catch around it (caught records the pattern and the line).
RECURSIVE ForEachMatch(_, _, _, _, _, _)
ForEachMatch(acc, matches, j, lineNumber, pattern, filePath) ==
    IF j > Len(matches) THEN acc
    ELSE IF matches[j] = Undefined
    THEN OnFailure(acc, pattern, lineNumber)
    ELSE LET m == matches[j]
             uniqueKey == UniqueKey(m, lineNumber, pattern)
             secret == SecretOf(m)
             fresh == LongEnough(m) /\ ~UniqueHas(acc.uniqueSecrets, uniqueKey)
             next ==
                 IF ~fresh THEN acc
                 ELSE [caught |-> acc.caught,
                       uniqueSecrets |-> acc.uniqueSecrets \cup {uniqueKey},
                       detectedSecrets |->
                           IF secret = <<>> THEN acc.detectedSecrets
                           ELSE Append(acc.detectedSecrets,
                                       [secret |-> secret, lineNumber |-> lineNumber,
                                        patternName |-> pattern.name,
                                        filePath |-> filePath])]
         IN  ForEachMatch(next, matches, j + 1, lineNumber, pattern, filePath)

\* lines.forEach((line, index) => ...) from line lineNumber on, for one pattern.
RECURSIVE ForEachLine(_, _, _, _, _, _)
ForEachLine(acc, text, lines, lineNumber, pattern, filePath) ==
    IF lineNumber > Len(lines) THEN acc
    ELSE LET next ==
                 IF isInCommentOrString(text, lineNumber) THEN acc
                 ELSE ForEachMatch(acc, match(lines[lineNumber], pattern.regex), 1,
                                   lineNumber, pattern, filePath)
         IN  ForEachLine(next, text, lines, lineNumber + 1, pattern, filePath)

\* for (const pattern of secretPatterns) from entry p on.
RECURSIVE ForEachPattern(_, _, _, _, _)
ForEachPattern(acc, text, patterns, p, filePath) ==
    IF p > Len(patterns) THEN acc
    ELSE ForEachPattern(
             ForEachLine(acc, text, split(text, {"\n"}), 1, patterns[p], filePath),
             text, patterns, p + 1, filePath)

\* scanFileContent(content, filePath) with the registry `patterns`: the
\* findings in the order they are pushed.
scanFileContentText(text, filePath, patterns) ==
    ForEachPattern(NoFindings, text, patterns, 1, filePath).detectedSecrets

\* isInComment(content, lineNumber) of the old revision of scanWorkspace.
isInCommentText(text, lineNumber) ==
    LET line == split(text, {"\n"})[lineNumber]
    IN  \/ startsWith(trim(line), <<"/", "/">>)
        \/ startsWith(trim(line), <<"#">>)
        \/ startsWith(trim(line), <<"/", "*">>)

\* What the file loop adds to secretsDetected for one file: the old revision
\* drops the issues on comment lines; secretsDetected is a Set of objects, so
\* every issue is a new member.
IssuesAdded(rev, text, issues) ==
    IF rev = "old" THEN SelectSeq(issues, LAMBDA s : ~isInCommentText(text, s.lineNumber))
    ELSE issues

NoScan == [scanned |-> FALSE, done |-> FALSE, rev |-> "", issues |-> <<>>,
           secretsDetected |-> <<>>, caught |-> {}]

ScannerIdleInit ==
    /\ customPatterns = <<>>
    /\ secretPatterns = NotLoaded
    /\ content = <<>>
    /\ scanResult = NoScan

(***************************************************************************)
(* The scan command (manualScanCommand) and scanWorkspace.                 *)
(*                                                                         *)
(* The extension host runs JavaScript on one thread: a handler runs        *)
(* without interruption up to its next await, whether the awaited promise  *)
(* is one of the host (findFiles, readFile, the web view) or one of the    *)
(* program (scanFileContent, withProgress, scanWorkspace); other           *)
(* invocations of the command and the user's cancellation arrive only at   *)
(* those points. Each action below is one such uninterrupted stretch. The  *)
(* tree holds two revisions of scanWorkspace (detectors/secretDetector.ts  *)
(* and the later one in unnamed/part_002); revision says which one runs.   *)
(***************************************************************************)
Requests == 1..MaxRequests

RECURSIVE Dashes(_)
Dashes(n) == IF n <= 0 THEN "" ELSE "-" \o Dashes(n - 1)

\* createSeparatorLogLine(message, separatorLength)
createSeparatorLogLine(message, separatorLength) ==
    LET padding == separatorLength - Len(message) - 2
        leftPadding == padding \div 2
        rightPadding == padding - leftPadding
    IN  IF padding < 0 THEN Dashes(separatorLength)
        ELSE Dashes(leftPadding) \o " " \o message \o " " \o Dashes(rightPadding)

Separator(message) == createSeparatorLogLine(message, 80)

AlreadyInProgress == "Scan already in progress. Please wait..."
ScanStarted == Separator("Scan started")
CompletedFound == Separator("Scan completed: Exposed secrets found.")
CompletedNone == Separator("Scan completed: No secrets detected.")
NoWorkspaceNotice == "No workspace folder open to scan."
NoSecretsNotice == "No secrets detected in the workspace."
FindFilesError == "findFiles failed"
UpdateError == "update failed"
WebviewError == "web view failed"
ReportError == "EACCES: permission denied"
ReportPath(rev) == IF rev = "old" THEN ".cipherscan/exposed-secrets.html"
                   ELSE ".cipherscan/cipherscan-report.html"

FoundFilesMessage(n) == "Found " \o ToString(n) \o " files to scan."
ReadErrorNotice(path) == "Error reading file: " \o path
ReadErrorMessage(path) == "Error while reading file: " \o path
ScanErrorNotice(msg) == "Error while scanning workspace: " \o msg
ScanErrorMessage(msg) == "Error during scan: " \o msg
SecretDetectedMessage(s) ==
    "Secret detected: " \o s.patternName \o " at line " \o ToString(s.lineNumber)
        \o " in " \o s.filePath
ReportErrorMessage(msg) == "Error generating report: Error: " \o msg
ReportNotice(path) == "Secrets report generated at: " \o path

\* The files of a workspace, by what reading and scanning them gives: a file
\* without findings, a file that cannot be read, a file with one finding and
\* a file whose one finding has low entropy. line is the kind of text the
\* finding's line starts with; scanFileContent skips comment lines itself
\* (fileUtils.ts:20), so its findings are on code lines.
FileKinds == {"clean", "unreadable", "secret", "weak"}

FilePath(k) == "/w/f" \o ToString(k) \o ".ts"

\* What scanFileContent(content, path) returns for the k-th file.
scanFileContent(kind, k) ==
    CASE kind = "secret" ->
            << [secret |-> "AKIA1234567890ABCDEF", lineNumber |-> k,
                patternName |-> "Amazon AWS Access Key ID", filePath |-> FilePath(k),
                line |-> "code", highEntropy |-> TRUE] >>
      [] kind = "weak" ->
            << [secret |-> "aaaaaaaaaaaaaaaaaaaaaaaaaaaaaaaaaa", lineNumber |-> k,
                patternName |-> "Generic Secret", filePath |-> FilePath(k),
                line |-> "code", highEntropy |-> FALSE] >>
      [] OTHER -> <<>>

\* isInComment(content, lineNumber) of the old revision: the trimmed line
\* starts with //, # or /*.
isInComment(issue) == issue.line \in {"lineComment", "hashComment", "blockComment"}

\* issues.filter(issue => !isInComment(content, issue.lineNumber)): the old
\* revision only.
FilteredIssues(rev, issues) ==
    IF rev = "old" THEN SelectSeq(issues, LAMBDA s : ~isInComment(s)) ELSE issues

\* filterHighEntropySecrets(secretsDetected, BASE64_ENTROPY_LIMIT), the new
\* revision only (utils/entropyUtils is not in the tree): the findings whose
\* score exceeds the threshold are kept.
filterHighEntropySecrets(secrets) == SelectSeq(secrets, LAMBDA s : s.highEntropy)

\* secretsArray.map(({ secret, ...rest }) => rest)
Metadata(s) == [lineNumber |-> s.lineNumber, patternName |-> s.patternName,
                filePath |-> s.filePath]

RECURSIVE MapMetadata(_)
MapMetadata(secrets) ==
    IF secrets = <<>> THEN <<>> ELSE <<Metadata(Head(secrets))>> \o MapMetadata(Tail(secrets))

\* filterIgnoredSecrets(secretsMetadata, ignoredSecrets)
filterIgnoredSecrets(secretsMetadata, ignoredSecrets) ==
    SelectSeq(secretsMetadata, LAMBDA s :
        ~\E ignored \in ignoredSecrets :
            /\ ignored.lineNumber = s.lineNumber
            /\ ignored.patternName = s.patternName
            /\ ignored.filePath = s.filePath)

NoReport == [written |-> FALSE, path |-> "", totalFilesScanned |-> 0, secrets |-> <<>>]
NotHandled == [called |-> FALSE, secrets |-> <<>>, totalFiles |-> 0]
NotGenerated == [called |-> FALSE, secrets |-> <<>>, failed |-> FALSE]

\* An invocation of the command that has not happened yet. pc is the await
\* the handler stands at. thrown is the error that is propagating in the
\* handler, the message of an Error or NonError ("" when there is none); errored
\* says the catch block of scanWorkspace ran, failed that the catch block of
\* the command handler ran, logFailures counts the logMessage calls of the
\* request that threw; returned and hasSecrets are the value scanWorkspace
\* resolved to. id is the number of the request once it is invoked.
NewRequest ==
    [pc |-> "new", id |-> 0, arrivedWhileScanning |-> FALSE, notices |-> <<>>,
     logged |-> <<>>,
     totalFiles |-> 0, i |-> 0, token |-> FALSE, secretsDetected |-> <<>>,
     progress |-> <<>>, metadata |-> <<>>,
     reads |-> <<>>, cancelDuring |-> 0, cancelSeen |-> -1, exited |-> FALSE,
     handled |-> NotHandled, remaining |-> <<>>, generated |-> NotGenerated,
     written |-> NoReport, errored |-> FALSE, failed |-> FALSE,
     thrown |-> "", logFailures |-> 0,
     returned |-> FALSE, hasSecrets |-> FALSE]

\* throw new Error('Failed to create log directory') of getLogFilePath.
LogDirError == "Failed to create log directory"

\* A value thrown that is not an Error.
NonError == "a value that is not an Error"

\* The ways a promise of the host settles: it resolves, or it rejects with
\* an Error or with another value.
Settlements == {"resolved", "rejected", "rejectedNonError"}

\* What a promise that rejects throws at its await.
Rejection(settled, message) == IF settled = "rejected" THEN message ELSE NonError

Thrown(q) == q.thrown # ""
Throw(q, error) == [q EXCEPT !.thrown = error]

Notify(q, text) == [q EXCEPT !.notices = Append(@, text)]
Log(q, message, level) == [q EXCEPT !.logged = Append(@, [message |-> message, level |-> level])]

LogFailed(q) == q.logFailures > 0

\* The logMessage calls of the command handlers that have thrown, when the
\* handler of request q.id has come to q.
RECURSIVE LogFailuresOfOthers(_, _)
LogFailuresOfOthers(q, r) ==
    IF r = 0 THEN 0
    ELSE LogFailuresOfOthers(q, r - 1) + (IF r = q.id THEN 0 ELSE req[r].logFailures)

LogFailuresSoFar(q) == q.logFailures + LogFailuresOfOthers(q, MaxRequests)

\* logMessage(message, level) called in the handler of q: the call returns,
\* or it throws. getLogFilePath is called outside the try block of
\* logMessage; it throws when the directory .cipherscan is missing and
\* cannot be created, whatever the state of the directory was at the call
\* before. Without a workspace folder it returns '' before it looks at the
\* directory, and logMessage returns at once. At most MaxLogFailures calls
\* throw.
LogOrThrow(q, message, level) ==
    {Log(q, message, level)} \cup
    (IF workspaceOpen[1] /\ LogFailuresSoFar(q) < MaxLogFailures
     THEN {[Throw(q, LogDirError) EXCEPT !.logFailures = @ + 1]} ELSE {})

\* Statements in sequence: an outcome of Q in which nothing has been thrown
\* goes on with F.
Then(Q, F(_)) == UNION {IF Thrown(q) THEN {q} ELSE F(q) : q \in Q}

RECURSIVE LogEach(_, _)
LogEach(q, secrets) ==
    IF secrets = <<>> THEN {q}
    ELSE UNION {IF Thrown(x) THEN {x} ELSE LogEach(x, Tail(secrets)) :
                   x \in LogOrThrow(q, SecretDetectedMessage(Head(secrets)), "warning")}

\* Mutant: the command handler never rejects a request.
ScanRejectedNever(flag) == FALSE

\* if (isScanning) { showInformationMessage(...); return; }
ScanRejected(flag) == flag

\* Mutant: the flag is cleared at the end of the try block, not in a finally:
\* it stays set when the handler caught an error.
ScanningAfterNoFinally(q) == q.pc # "done" \/ q.failed

\* isScanning = true before the 'Scan started' line and the try block, and
\* finally isScanning = false: the flag is set from the flag test on for as
\* long as the handler has not gone through its finally block.
ScanningAfter(q) == q.pc # "done"

\* Mutant: the file loop does not look at the cancellation token.
SeesCancellationNever(token) == FALSE

\* if (token.isCancellationRequested) at the head of the file loop.
SeesCancellation(token) == token

\* The promise of scanWorkspace rejects with the error that is propagating:
\* the handler is resumed at `await scanWorkspace(context)` in a later job.
Reject(q) == [q EXCEPT !.pc = "returning"]

\* return of scanWorkspace: its promise resolves to hasSecrets, and the
\* handler is resumed at `await scanWorkspace(context)` in a later job.
Return(q, hasSecrets) ==
    [q EXCEPT !.returned = TRUE, !.hasSecrets = hasSecrets, !.pc = "returning"]

\* error instanceof Error ? error.message : 'An unknown error occurred.'
ErrorMessage(thrown) == IF thrown = NonError THEN "An unknown error occurred." ELSE thrown

\* The catch block of scanWorkspace around an error thrown inside its try
\* block: the error is shown and logged and scanWorkspace returns false;
\* when that logMessage call throws, scanWorkspace rejects.
ScanCatch(q) ==
    IF ~Thrown(q) THEN {q}
    ELSE LET errorMessage == ErrorMessage(q.thrown)
             shown == Notify([q EXCEPT !.thrown = "", !.errored = TRUE],
                             ScanErrorNotice(errorMessage))
         IN  {IF Thrown(x) THEN Reject(x) ELSE Return(x, FALSE) :
                 x \in LogOrThrow(shown, ScanErrorMessage(errorMessage), "error")}

\* The catch block of the command handler: the latest revision logs the
\* message of an Error and nothing for another value, the one before it
\* logs 'Unknown error' for a value that is not an Error.
HandlerCatch(q, latest) ==
    LET caught == [q EXCEPT !.thrown = "", !.failed = TRUE]
    IN  IF q.thrown # NonError THEN LogOrThrow(caught, ScanErrorMessage(q.thrown), "error")
        ELSE IF latest THEN {caught}
        ELSE LogOrThrow(caught, ScanErrorMessage("Unknown error"), "error")

\* The command handler from the settlement of `await scanWorkspace(context)`
\* on: the completion line inside the try block, the catch block, and
\* finally isScanning = false. An outcome with thrown set is a handler whose
\* promise rejected.
Complete(q, latest) ==
    LET tried == IF Thrown(q) THEN {q}
                 ELSE LogOrThrow(q, IF q.hasSecrets THEN CompletedFound
                                    ELSE CompletedNone, "info")
        caught == UNION {IF Thrown(x) THEN HandlerCatch(x, latest) ELSE {x} :
                            x \in tried}
    IN  {[x EXCEPT !.pc = "done"] : x \in caught}

\* Mutant: generateReport writes the document also for an empty list.
WithReportAlwaysWrites(q, rev, secrets, totalFiles, reportOk) ==
    IF ~reportOk
    THEN LogOrThrow([q EXCEPT !.generated.failed = TRUE],
                    ReportErrorMessage(ReportError), "error")
    ELSE {Notify([q EXCEPT !.generated = [called |-> TRUE, secrets |-> secrets,
                                          failed |-> FALSE],
                           !.written =
                               [written |-> TRUE, path |-> ReportPath(rev),
                                totalFilesScanned |-> totalFiles, secrets |-> secrets]],
                 ReportNotice(ReportPath(rev)))}

\* Mutant: the catch around report generation logs nothing.
WithReportFailureUnlogged(q, rev, secrets, totalFiles, reportOk) ==
    IF ~reportOk THEN {[q EXCEPT !.generated.failed = TRUE]}
    ELSE {Notify([q EXCEPT !.generated = [called |-> TRUE, secrets |-> secrets,
                                          failed |-> FALSE],
                           !.written =
                               IF secrets = <<>> THEN @
                               ELSE [written |-> TRUE, path |-> ReportPath(rev),
                                     totalFilesScanned |-> totalFiles,
                                     secrets |-> secrets]],
                 ReportNotice(ReportPath(rev)))}

\* generateReport(secrets, reportPath, totalFiles, context) and the notice
\* after it, inside try/catch: nothing is written for an empty list, and a
\* failure (of the path lookup or of the write) is logged; that logMessage
\* call is in the catch block, so when it throws the error leaves
\* handleDetectedSecrets.
WithReport(q, rev, secrets, totalFiles, reportOk) ==
    IF ~reportOk
    THEN LogOrThrow([q EXCEPT !.generated.failed = TRUE],
                    ReportErrorMessage(ReportError), "error")
    ELSE {Notify([q EXCEPT !.generated = [called |-> TRUE, secrets |-> secrets,
                                          failed |-> FALSE],
                           !.written =
                               IF secrets = <<>> THEN @
                               ELSE [written |-> TRUE, path |-> ReportPath(rev),
                                     totalFilesScanned |-> totalFiles,
                                     secrets |-> secrets]],
                 ReportNotice(ReportPath(rev)))}

\* Mutant: handleDetectedSecrets returns true also without findings.
HandleDetectedSecretsOldTrue(q, secrets, totalFiles, reportOk) ==
    LET h == [q EXCEPT !.handled = [called |-> TRUE, secrets |-> secrets,
                                    totalFiles |-> totalFiles],
                       !.remaining = secrets]
    IN  IF secrets = <<>> THEN {Return(Notify(h, NoSecretsNotice), TRUE)}
        ELSE {IF Thrown(x) THEN x ELSE Return(x, TRUE) :
                 x \in Then(LogEach(h, secrets),
                            LAMBDA y : WithReport(y, "old", secrets, totalFiles, reportOk))}

\* handleDetectedSecrets of the old revision, called inside the try block of
\* scanWorkspace, which returns its value.
HandleDetectedSecretsOld(q, secrets, totalFiles, reportOk) ==
    LET h == [q EXCEPT !.handled = [called |-> TRUE, secrets |-> secrets,
                                    totalFiles |-> totalFiles],
                       !.remaining = secrets]
    IN  IF secrets = <<>> THEN {Return(Notify(h, NoSecretsNotice), FALSE)}
        ELSE {IF Thrown(x) THEN x ELSE Return(x, TRUE) :
                 x \in Then(LogEach(h, secrets),
                            LAMBDA y : WithReport(y, "old", secrets, totalFiles, reportOk))}

\* handleDetectedSecrets of the new revision up to its first await: the
\* metadata of the findings goes to the global state (an update that is not
\* awaited) and the update that clears the ignored findings is awaited.
HandleDetectedSecretsNew(q, secrets, totalFiles) ==
    LET h == [q EXCEPT !.handled = [called |-> TRUE, secrets |-> secrets,
                                    totalFiles |-> totalFiles]]
    IN  IF secrets = <<>> THEN {Return(Notify(h, NoSecretsNotice), FALSE)}
        ELSE {[h EXCEPT !.pc = "clearIgnored", !.metadata = MapMetadata(secrets)]}

\* scanWorkspace after withProgress has resolved. The old revision calls
\* handleDetectedSecrets inside its try block; the new revision returns the
\* promise of handleDetectedSecrets.
AfterProgress(q, rev, reportOk) ==
    LET x == [q EXCEPT !.exited = TRUE]
    IN  IF rev = "old"
        THEN UNION {ScanCatch(y) :
                       y \in HandleDetectedSecretsOld(x, x.secretsDetected, x.totalFiles,
                                                      reportOk)}
        ELSE HandleDetectedSecretsNew(x, filterHighEntropySecrets(x.secretsDetected),
                                      x.totalFiles)

\* progress.report of the cancelled loop: the old revision passes
\* { increment: 0, message }, the new one { message } alone.
CancelReport(rev) ==
    IF rev = "old" THEN [increment |-> 0, message |-> "Scan canceled."]
    ELSE [message |-> "Scan canceled."]

\* The callback of withProgress is left, by a return or by the error that is
\* propagating: scanWorkspace is resumed at `await withProgress` in a later
\* job.
LeaveCallback(q) == [q EXCEPT !.pc = "withProgress"]

\* The head of the file loop at index q.i: the loop ends after the last file
\* and when the token is seen cancelled; otherwise readFile is issued.
LoopHead(q, rev) ==
    IF q.i >= q.totalFiles THEN LeaveCallback(q)
    ELSE IF SeesCancellation(q.token)
         THEN LeaveCallback([q EXCEPT !.cancelSeen = q.i,
                                      !.progress = Append(@, CancelReport(rev))])
         ELSE [q EXCEPT !.pc = "reading", !.reads = Append(@, q.i + 1)]

(***************************************************************************)
(* Math.floor(((i + 1) / total) * 100) in the arithmetic of the program:   *)
(* IEEE 754 doubles, each operation rounded to the nearest double, ties to *)
(* even. A double is [bits, scale]: the integer whose binary digits are    *)
(* bits, most significant first, times 2^-scale.                           *)
(***************************************************************************)

\* acc followed by the next n binary digits of rem/total, and the remainder
\* left. (The test on acc has TLC evaluate the accumulator at every step.)
RECURSIVE Quotient(_, _, _, _)
Quotient(acc, rem, total, n) ==
    IF n = 0 \/ Len(acc) < 0 THEN [bits |-> acc, rem |-> rem]
    ELSE LET d == IF 2 * rem >= total THEN 1 ELSE 0
         IN  Quotient(Append(acc, d), 2 * rem - d * total, total, n - 1)

\* The number of zeros between the point and the first 1 of rem/total.
RECURSIVE LeadingZeros(_, _)
LeadingZeros(rem, total) ==
    IF rem = 0 \/ 2 * rem >= total THEN 0 ELSE 1 + LeadingZeros(2 * rem, total)

RECURSIVE Increment(_)
Increment(bits) ==
    IF bits = <<>> THEN <<1>>
    ELSE IF bits[Len(bits)] = 0 THEN [bits EXCEPT ![Len(bits)] = 1]
    ELSE Append(Increment(SubSeq(bits, 1, Len(bits) - 1)), 0)

RECURSIVE StripZeros(_)
StripZeros(bits) ==
    IF bits # <<>> /\ Head(bits) = 0 THEN StripZeros(Tail(bits)) ELSE bits

\* The double nearest to bits * 2^-scale (plus something below the last
\* digit when sticky): 53 significant digits are kept, a tie goes to the
\* even neighbour.
RoundToDouble(bits, scale, sticky) ==
    LET sig == StripZeros(bits)
        extra == Len(sig) - 53
        kept == SubSeq(sig, 1, 53)
        guard == sig[54]
        rest == sticky \/ \E j \in 55..Len(sig) : sig[j] = 1
        up == guard = 1 /\ (rest \/ kept[53] = 1)
    IN  IF extra <= 0 THEN [bits |-> sig, scale |-> scale]
        ELSE [bits |-> IF up THEN Increment(kept) ELSE kept, scale |-> scale - extra]

\* k / total for integers 0 < k <= total.
Divide(k, total) ==
    LET whole == k \div total
        rem == k % total
        digits == (IF whole = 0 THEN LeadingZeros(rem, total) ELSE 0) + 54
        q == Quotient(<<whole>>, rem, total, digits)
    IN  RoundToDouble(q.bits, digits, q.rem > 0)

BitAt(bits, j) == IF j < Len(bits) THEN bits[Len(bits) - j] ELSE 0

RECURSIVE AddFrom(_, _, _, _, _)
AddFrom(a, b, j, carry, acc) ==
    IF (j >= Len(a) /\ j >= Len(b)) \/ Len(acc) < 0 \/ carry < 0
    THEN (IF carry = 1 THEN <<1>> \o acc ELSE acc)
    ELSE LET s == BitAt(a, j) + BitAt(b, j) + carry
         IN  AddFrom(a, b, j + 1, s \div 2, <<s % 2>> \o acc)

AddBits(a, b) == AddFrom(a, b, 0, 0, <<>>)

\* x * 100: the exact product (100 = 64 + 32 + 4), rounded.
TimesHundred(x) ==
    LET product == AddBits(AddBits(x.bits \o <<0, 0, 0, 0, 0, 0>>,
                                   x.bits \o <<0, 0, 0, 0, 0>>),
                           x.bits \o <<0, 0>>)
    IN  RoundToDouble(product, x.scale, FALSE)

RECURSIVE ToInteger(_)
ToInteger(bits) ==
    IF bits = <<>> THEN 0
    ELSE 2 * ToInteger(SubSeq(bits, 1, Len(bits) - 1)) + bits[Len(bits)]

\* Math.floor(x)
MathFloor(x) ==
    IF x.scale <= 0 THEN ToInteger(x.bits \o [j \in 1..(0 - x.scale) |-> 0])
    ELSE ToInteger(SubSeq(x.bits, 1, Len(x.bits) - x.scale))

\* progress.report({ increment: Math.floor(((i + 1) / total) * 100), message: path })
ProgressReport(i, total, path) ==
    [increment |-> MathFloor(TimesHundred(Divide(i + 1, total))), message |-> path]

\* The end of an iteration of the file loop: progress.report for file q.i + 1,
\* then the next head of the loop.
EndOfIteration(q, rev) ==
    LoopHead([q EXCEPT !.progress =
                           Append(@, ProgressReport(q.i, q.totalFiles, FilePath(q.i + 1))),
                       !.i = q.i + 1],
             rev)

ScanIdleInit ==
    /\ revision = "old"
    /\ files = <<>>
    /\ extension = "inactive"
    /\ isScanning = FALSE
    /\ req = [r \in Requests |-> NewRequest]
    /\ reportFile = NoReport

(***************************************************************************)
(* Spec: the extension and its scan command in one extension host          *)
(* (process 1).                                                            *)
(***************************************************************************)
Workspaces == UNION {[1..n -> FileKinds] : n \in 0..MaxFiles}

Init ==
    /\ CacheInit
    /\ now = 0
    /\ workspaceOpen \in {[p \in Procs |-> b] : b \in BOOLEAN}
    /\ logFile = NoFile
    /\ archives = <<>>
    /\ lockFile = FALSE
    /\ wpc = [p \in Procs |-> "idle"]
    /\ wline = [p \in Procs |-> ""]
    /\ wcall = [p \in Procs |-> NoLogCall]
    /\ logCalls = 0
    /\ revision \in {"old", "new"}
    /\ files \in Workspaces
    /\ extension = "inactive"
    /\ isScanning = FALSE
    /\ req = [r \in Requests |-> NewRequest]
    /\ reportFile = NoReport
    /\ RedactIdleInit
    /\ ScannerIdleInit

\* One synchronous logMessage call of process 1 that does not throw, with
\* nobody else at the log file: the states the log can be in after it. st is
\* [now, logFile, archives, cache]. The call reads the clock for the line
\* (line 120) and, when it rotates, once more for the name of the archive
\* (line 128); the clock may have advanced before each reading.
LogMessageSync(st, message, level) ==
    {LET t == st.now + d[1]
         t2 == t + d[2]
         line == FinalMessage(t, level, message)
         dup == isDuplicate(st.cache, line)
         rotated == LogFileAfterRotation(st.logFile)
     IN  [now |-> t2,
          archives |-> ArchivesAfterRotation(st.archives, st.logFile, t2),
          logFile |-> IF AfterDuplicateCheck(dup) = "spin" THEN AppendFile(rotated, line)
                      ELSE rotated,
          cache |-> CacheAfter(st.cache, line)] :
     d \in {e \in {0, 1} \X {0, 1} :
               /\ st.now + e[1] + e[2] <= MaxClock
               /\ ~NeedsRotation(st.logFile) => e[2] = 0}}

\* The states of the log after the calls of a sequence, from a state of S.
RECURSIVE LogAllSync(_, _)
LogAllSync(S, calls) ==
    IF calls = <<>> THEN S
    ELSE LogAllSync(UNION {LogMessageSync(st, Head(calls).message, Head(calls).level) :
                              st \in S},
                    Tail(calls))

\* The extension host makes the logMessage calls `calls`, none of which
\* throws; without a workspace folder logMessage returns at once.
HostLogs(calls) ==
    IF workspaceOpen[1]
    THEN \E after \in LogAllSync({[now |-> now, logFile |-> logFile, archives |-> archives,
                                   cache |-> recentLogHashes[1]]}, calls) :
            /\ now' = after.now
            /\ logFile' = after.logFile
            /\ archives' = after.archives
            /\ recentLogHashes' = [recentLogHashes EXCEPT ![1] = after.cache]
    ELSE UNCHANGED <<now, logFile, archives, recentLogHashes>>

\* The step of request r from q to its new state next: the logMessage calls
\* next.logged adds are made, the report next wrote is on disk, and the flag
\* is as the handler left it.
Commit(r, next, flag) ==
    /\ req' = [req EXCEPT ![r] = next]
    /\ isScanning' = flag
    /\ reportFile' = IF next.written # req[r].written THEN next.written ELSE reportFile
    /\ HostLogs(SubSeq(next.logged, Len(req[r].logged) + 1, Len(next.logged)))
    /\ UNCHANGED <<lockFile, writerVars, revision, files, extension, redactVars, scannerVars>>
    /\ CacheIdle

Activated == "CipherScan extension activated."
Deactivated == "CipherScan extension deactivated."
GitIgnoreFailed == "Failed to locate .git folder or modify .gitignore."

\* A logMessage call of the host outside the command handler: it throws at
\* getLogFilePath, or it returns and the extension is in state `to`.
HostLogsOrThrows(message, level, to, thrownTo) ==
    \/ /\ workspaceOpen[1]
       /\ extension' = thrownTo
       /\ UNCHANGED <<now, logFile, archives, recentLogHashes>>
    \/ /\ extension' = to
       /\ HostLogs(<<[message |-> message, level |-> level]>>)

\* activate(context): the activation line is logged and the command is
\* registered. When logMessage throws, activate throws before it registers
\* the command.
Activate ==
    /\ extension = "inactive"
    /\ HostLogsOrThrows(Activated, "debug", "active", "failed")
    /\ UNCHANGED <<revision, files, isScanning, req, reportFile, lockFile, writerVars,
                   redactVars, scannerVars>>
    /\ CacheIdle

\* deactivate(): the deactivation line is logged; the command is gone.
Deactivate ==
    /\ extension = "active"
    /\ HostLogsOrThrows(Deactivated, "debug", "deactivated", "deactivated")
    /\ UNCHANGED <<revision, files, isScanning, req, reportFile, lockFile, writerVars,
                   redactVars, scannerVars>>
    /\ CacheIdle

\* addToGitIgnore after a change of the setting cipherscan.addToGitIgnore,
\* when the folder .git cannot be read or .gitignore cannot be written: the
\* catch block logs one line. (When that logMessage call throws, the promise
\* of addToGitIgnore rejects and nothing has changed.) activate registers
\* the listener and nothing removes it: it is not among the subscriptions of
\* the extension, and deactivate leaves it.
AddToGitIgnoreFails ==
    /\ extension \in {"active", "deactivated"}
    /\ workspaceOpen[1]
    /\ extension' = extension
    /\ HostLogs(<<[message |-> GitIgnoreFailed, level |-> "info"]>>)
    /\ UNCHANGED <<revision, files, isScanning, req, reportFile, lockFile, writerVars,
                   redactVars, scannerVars>>
    /\ CacheIdle

\* scanWorkspace(context) as the handler calls it, up to its first await:
\* without a workspace folder it shows a notice and returns false, otherwise
\* it stands at `await findFiles`. (started with thrown set: the 'Scan
\* started' line threw, outside the try block of the handler: the handler
\* ends, scanWorkspace is not called and the flag stays set.)
CallScanWorkspace(started) ==
    IF Thrown(started) THEN [started EXCEPT !.pc = "crashed"]
    ELSE IF ~workspaceOpen[1] THEN Return(Notify(started, NoWorkspaceNotice), FALSE)
    ELSE [started EXCEPT !.pc = "findFiles"]

\* The command handler up to its first await: the flag test, the flag, the
\* 'Scan started' line and scanWorkspace up to its first await. Without a
\* workspace folder scanWorkspace returns at once and the handler stands at
\* `await scanWorkspace(context)`.
Invoke(r) ==
    /\ extension = "active"
    /\ req[r].pc = "new"
    /\ \A earlier \in 1..(r - 1) : req[earlier].pc # "new"
    /\ LET q == [req[r] EXCEPT !.id = r, !.arrivedWhileScanning = isScanning]
       IN  IF ScanRejected(isScanning)
           THEN Commit(r, [Notify(q, AlreadyInProgress) EXCEPT !.pc = "rejected"], isScanning)
           ELSE \E started \in LogOrThrow(q, ScanStarted, "info") :
                   LET next == CallScanWorkspace(started)
                   IN  Commit(r, next, ScanningAfter(next))

\* The handler goes on after `await scanWorkspace(context)`: the promise of
\* scanWorkspace has resolved or rejected.
ScanResolved(r) ==
    /\ req[r].pc = "returning"
    /\ \E next \in Complete(req[r], FALSE) : Commit(r, next, ScanningAfter(next))

\* findFiles resolves or rejects: 'Found N files', then withProgress, whose
\* callback runs the file loop up to the first readFile.
FindFilesReturn(r) ==
    /\ req[r].pc = "findFiles"
    /\ \E settled \in Settlements :
        LET q == req[r]
            body == IF settled # "resolved"
                    THEN {Throw(q, Rejection(settled, FindFilesError))}
                    ELSE {IF Thrown(x) THEN x
                          ELSE LoopHead([x EXCEPT !.totalFiles = Len(files), !.i = 0],
                                        revision) :
                             x \in LogOrThrow(q, FoundFilesMessage(Len(files)), "info")}
        IN  \E next \in UNION {ScanCatch(x) : x \in body} :
                Commit(r, next, ScanningAfter(next))

\* readFile of file i + 1 settles. With the content, scanFileContent is
\* called and awaited. When readFile rejects, the catch block of the loop
\* reports the failure (the new revision logs it too: when that logMessage
\* call throws, the error leaves the callback), progress is reported and the
\* loop goes on to its next head.
ReadDone(r) ==
    /\ req[r].pc = "reading"
    /\ LET q == req[r]
           notified == Notify(q, ReadErrorNotice(FilePath(q.i + 1)))
           caught == IF revision = "old" THEN {notified}
                     ELSE LogOrThrow(notified, ReadErrorMessage(FilePath(q.i + 1)), "error")
       IN  \E next \in IF files[q.i + 1] # "unreadable" THEN {[q EXCEPT !.pc = "scanFile"]}
                       ELSE {IF Thrown(x) THEN LeaveCallback(x)
                             ELSE EndOfIteration(x, revision) : x \in caught} :
              Commit(r, next, ScanningAfter(next))

\* scanFileContent of file i + 1 resolves: its findings are added (the old
\* revision drops those on comment lines), progress is reported and the loop
\* goes on to its next head.
ScanFileDone(r) ==
    /\ req[r].pc = "scanFile"
    /\ LET q == req[r]
           k == q.i + 1
           issues == FilteredIssues(revision, scanFileContent(files[k], k))
           next == EndOfIteration([q EXCEPT !.secretsDetected = @ \o issues], revision)
       IN  Commit(r, next, ScanningAfter(next))

\* The user presses Cancel on the progress notification of request r while a
\* file is being read or scanned.
Cancel(r) ==
    /\ req[r].pc \in {"reading", "scanFile"}
    /\ ~req[r].token
    /\ req' = [req EXCEPT ![r].token = TRUE, ![r].cancelDuring = req[r].i + 1]
    /\ UNCHANGED <<revision, files, extension, isScanning, reportFile, fsVars, writerVars,
                   recentLogHashes, redactVars, scannerVars>>
    /\ CacheIdle

\* withProgress settles as its callback did and scanWorkspace goes on: with
\* handleDetectedSecrets, or in its catch block with the error that left the
\* callback.
ProgressDone(r) ==
    /\ req[r].pc = "withProgress"
    /\ \E reportOk \in BOOLEAN :
          \E next \in IF Thrown(req[r]) THEN ScanCatch(req[r])
                      ELSE AfterProgress(req[r], revision, reportOk) :
              Commit(r, next, ScanningAfter(next))

\* The new revision: the update of the global state that clears the ignored
\* findings settles; the web view is shown and awaited. handleDetectedSecrets
\* is an async function whose promise scanWorkspace returns without awaiting
\* it: an error thrown in it passes by the catch block of scanWorkspace to
\* the handler.
IgnoredCleared(r) ==
    /\ req[r].pc = "clearIgnored"
    /\ \E settled \in Settlements :
        LET next == IF settled = "resolved" THEN [req[r] EXCEPT !.pc = "webview"]
                    ELSE Reject(Throw(req[r], Rejection(settled, UpdateError)))
        IN  Commit(r, next, ScanningAfter(next))

\* The new revision: the web view settles; the findings the user ignored are
\* filtered out, the rest is logged and reported, and handleDetectedSecrets
\* returns true.
WebviewDone(r) ==
    /\ req[r].pc = "webview"
    /\ \E settled \in Settlements, ignoredSecrets \in SUBSET Range(req[r].metadata),
          reportOk \in BOOLEAN :
        LET filteredSecrets == filterIgnoredSecrets(req[r].metadata, ignoredSecrets)
            q == [req[r] EXCEPT !.remaining = filteredSecrets]
            body == Then(LogEach(q, filteredSecrets),
                         LAMBDA y : WithReport(y, "new", filteredSecrets,
                                               q.handled.totalFiles, reportOk))
        IN  \E next \in IF settled # "resolved"
                        THEN {Reject(Throw(req[r], Rejection(settled, WebviewError)))}
                        ELSE {IF Thrown(x) THEN Reject(x) ELSE Return(x, TRUE) : x \in body} :
                Commit(r, next, ScanningAfter(next))

\* No command handler is between its flag test and its end.
NoScanInFlight == \A r \in Requests : req[r].pc \in {"new", "rejected", "crashed", "done"}

\* scanWorkspace between its call and the settlement of its promise.
ScanStep(r) ==
    \/ FindFilesReturn(r)
    \/ ReadDone(r)
    \/ ScanFileDone(r)
    \/ Cancel(r)
    \/ ProgressDone(r)
    \/ IgnoredCleared(r)
    \/ WebviewDone(r)

\* Spec has the host deactivate the extension between scans; SpecHandler at
\* any time.
Next ==
    \/ Activate
    \/ NoScanInFlight /\ Deactivate
    \/ \E r \in Requests :
          \/ Invoke(r)
          \/ ScanStep(r)
          \/ ScanResolved(r)

Spec == Init /\ [][Next]_vars

(***************************************************************************)
(* SpecHandler: the command handler of the latest revision of the          *)
(* extension around scanWorkspace, from the activation of the extension to *)
(* its deactivation, on a log file that may be about to be rotated.        *)
(***************************************************************************)
AlreadyInProgressLatest == "Scan is already in progress. Please wait..."

\* The command handler up to its first await: as Invoke, with the notice of
\* the latest revision.
HandlerInvoke(r) ==
    /\ extension = "active"
    /\ req[r].pc = "new"
    /\ \A earlier \in 1..(r - 1) : req[earlier].pc # "new"
    /\ LET q == [req[r] EXCEPT !.id = r, !.arrivedWhileScanning = isScanning]
       IN  IF ScanRejected(isScanning)
           THEN Commit(r, [Notify(q, AlreadyInProgressLatest) EXCEPT !.pc = "rejected"],
                       isScanning)
           ELSE \E started \in LogOrThrow(q, ScanStarted, "info") :
                   LET next == CallScanWorkspace(started)
                   IN  Commit(r, next, ScanningAfter(next))

\* The promise of scanWorkspace has settled: the handler logs the completion
\* line or the error (an Error only), and finally clears the flag.
ScanSettles(r) ==
    /\ req[r].pc = "returning"
    /\ \E next \in Complete(req[r], TRUE) : Commit(r, next, ScanningAfter(next))

\* The workspaces of SpecHandler: no file, or one file with a finding.
HandlerWorkspaces == {<<>>, <<"secret">>}

SpecHandlerInit ==
    /\ CacheInit
    /\ now = 0
    /\ workspaceOpen \in {[p \in Procs |-> b] : b \in BOOLEAN}
    /\ logFile \in InitialLogFiles
    /\ archives = <<>>
    /\ lockFile = FALSE
    /\ wpc = [p \in Procs |-> "idle"]
    /\ wline = [p \in Procs |-> ""]
    /\ wcall = [p \in Procs |-> NoLogCall]
    /\ logCalls = 0
    /\ revision \in {"old", "new"}
    /\ files \in HandlerWorkspaces
    /\ extension = "inactive"
    /\ isScanning = FALSE
    /\ req = [r \in Requests |-> NewRequest]
    /\ reportFile = NoReport
    /\ RedactIdleInit
    /\ ScannerIdleInit

NextHandler ==
    \/ Activate
    \/ Deactivate
    \/ \E r \in Requests :
          \/ HandlerInvoke(r)
          \/ ScanStep(r)
          \/ ScanSettles(r)

SpecHandler == SpecHandlerInit /\ [][NextHandler]_vars

\* The promises the scan awaits settle: findFiles, readFile and the update of
\* the global state resolve or reject, the promises of the program are
\* settled by jobs that run, and the web view settles when the user is done
\* with it. Nothing makes the user invoke the command or press Cancel.
SpecHandlerFair ==
    /\ SpecHandler
    /\ \A r \in Requests :
          /\ WF_vars(FindFilesReturn(r))
          /\ WF_vars(ReadDone(r))
          /\ WF_vars(ScanFileDone(r))
          /\ WF_vars(ProgressDone(r))
          /\ WF_vars(IgnoredCleared(r))
          /\ WF_vars(WebviewDone(r))
          /\ WF_vars(ScanSettles(r))

(***************************************************************************)
(* SpecHost: what the extension logs outside the scan command: the lines   *)
(* of activate and deactivate, and the line of addToGitIgnore, which the   *)
(* revisions before the latest call when the setting changes.              *)
(***************************************************************************)
NextHost == Activate \/ Deactivate \/ AddToGitIgnoreFails

SpecHost == SpecHandlerInit /\ [][NextHost]_vars

(***************************************************************************)
(* Claims about the scan command and scanWorkspace (checked under Spec).   *)
(***************************************************************************)
\* Where the handler of a request stands while its scan is active: at one of
\* the awaits between the 'Scan started' line and the finally block.
ActivePcs == {"findFiles", "reading", "scanFile", "withProgress", "clearIgnored", "webview",
              "returning"}

\* The findings scanWorkspace has accumulated once the first n files have
\* been processed: those of the readable ones, in file order.
RECURSIVE Accumulated(_)
Accumulated(n) ==
    IF n = 0 THEN <<>>
    ELSE Accumulated(n - 1) \o
         (IF files[n] = "unreadable" THEN <<>>
          ELSE FilteredIssues(revision, scanFileContent(files[n], n)))

\* C1: at most one scan session is active at any time, and a request that
\* arrives while the scanning flag is set starts no scan (it logs nothing, so
\* no 'Scan started' line, and reads no file), shows the 'already in
\* progress' notice and stays rejected: it is not run later.
C1_SingleScanSession ==
    /\ Cardinality({r \in Requests : req[r].pc \in ActivePcs}) <= 1
    /\ \A r \in Requests :
          req[r].arrivedWhileScanning =>
              /\ req[r].pc = "rejected"
              /\ req[r].notices = <<AlreadyInProgress>>
              /\ req[r].logged = <<>>
              /\ req[r].reads = <<>>
              /\ ~req[r].handled.called
              /\ ~req[r].returned

\* A request was rejected while another one is reading a file.
C1_Witness ==
    \E r, other \in Requests :
        /\ req[r].pc = "reading"
        /\ req[other].arrivedWhileScanning
        /\ req[other].pc = "rejected"

\* C2: the file count handed to result handling and to the report is the
\* number of files actually processed, also when the scan was cancelled after
\* N of M files.
C2_FilesScannedIsProcessed ==
    \A r \in Requests :
        /\ req[r].handled.called => req[r].handled.totalFiles = Len(req[r].reads)
        /\ req[r].written.written => req[r].written.totalFilesScanned = Len(req[r].reads)

\* C3: cancellation is observed only at the head of the file loop. Files are
\* read in order; once the token is seen set no later file is read; the file
\* that was being read when cancellation was requested is scanned to
\* completion and its findings are accumulated, and it is the last one
\* processed; the findings of the files processed so far are handed to result
\* handling and no error is raised.
C3_CancellationAtLoopHead ==
    \A r \in Requests :
        LET q == req[r]
        IN  /\ q.reads = [j \in 1..Len(q.reads) |-> j]
            /\ q.cancelSeen >= 0 =>
                  (q.pc \notin {"reading", "scanFile"} /\ Len(q.reads) = q.cancelSeen)
            /\ (q.cancelDuring > 0 /\ q.exited) =>
                  /\ q.i = q.cancelDuring
                  /\ Len(q.reads) = q.cancelDuring
                  /\ q.cancelDuring < q.totalFiles => q.cancelSeen = q.cancelDuring
                  /\ q.secretsDetected = Accumulated(q.cancelDuring)
                  /\ q.handled.called
                  /\ q.handled.secrets =
                         IF revision = "old" THEN q.secretsDetected
                         ELSE filterHighEntropySecrets(q.secretsDetected)
                  /\ ~q.errored
                  /\ \A n \in Range(q.notices) : n # ScanErrorNotice(FindFilesError)

\* A scan of two files was cancelled while the first was being read: the
\* first file's finding is in the partial result and the scan reported secrets.
C3_Witness ==
    \E r \in Requests :
        /\ req[r].totalFiles = 2
        /\ req[r].cancelDuring = 1
        /\ req[r].cancelSeen = 1
        /\ req[r].secretsDetected # <<>>
        /\ req[r].returned
        /\ req[r].hasSecrets

\* C4: a failure to read a file does not abort the scan: without
\* cancellation every file of the list is read, the readable ones contribute
\* their findings and the unreadable ones none, progress is reported for each
\* file, and each read failure is logged.
C4_ReadFailureSkipped ==
    \A r \in Requests :
        LET q == req[r]
        IN  (q.exited /\ ~q.token) =>
                /\ Len(q.reads) = q.totalFiles
                /\ q.secretsDetected = Accumulated(q.totalFiles)
                /\ Len(q.progress) = q.totalFiles
                /\ \A k \in 1..q.totalFiles :
                      files[k] = "unreadable" =>
                          [message |-> ReadErrorMessage(FilePath(k)), level |-> "error"]
                              \in Range(q.logged)


\* C27: every accepted scan request ends with the scanning flag cleared,
\* whether the scan found secrets or none (a cancelled scan is one of the
\* two) or threw; the flag is set exactly while a scan is active, so a request
\* that arrives after a scan has ended is accepted.
C27_FlagClearedAfterEveryScan ==
    /\ \A r \in Requests :
          (req[r].pc \in ActivePcs \cup {"crashed"}) ~> (req[r].pc = "done" /\ ~isScanning)
    /\ [](isScanning <=> \E r \in Requests : req[r].pc \in ActivePcs)
    /\ [][\A r \in Requests :
            (/\ req[r].pc = "new"
             /\ req'[r].pc # "new"
             /\ \A other \in Requests : req[other].pc \notin ActivePcs)
                => req'[r].pc \in ActivePcs]_vars

\* A scan ended with an error, and the request that came after it was
\* accepted and is scanning.
C27_Witness ==
    \E r, later \in Requests :
        /\ req[r].pc = "done"
        /\ req[r].failed
        /\ req[later].pc \in ActivePcs
        /\ ~req[later].arrivedWhileScanning
        /\ isScanning

\* The last logMessage call of request q.
LastLogged(q) == q.logged[Len(q.logged)]

\* The findings scanWorkspace detected in request q, as handed to
\* handleDetectedSecrets.
Detected(q) == q.handled.called /\ q.handled.secrets # <<>>

\* C13 as stated: the scan's result is true exactly when at least one
\* detected finding remains after the findings the user ignored are removed;
\* it is false when every detected finding was ignored.
C13_TrueIffNonIgnoredRemain ==
    \A r \in Requests :
        req[r].returned =>
            (req[r].hasSecrets <=> (req[r].handled.called /\ req[r].remaining # <<>>))

\* C13 amended: the scan's result is true exactly when at least one finding
\* was detected (handed to handleDetectedSecrets) and scanWorkspace caught no
\* error, whether or not the user ignored the finding: with every detected
\* finding ignored the result is still true.
C13_TrueIffDetected ==
    \A r \in Requests :
        req[r].returned =>
            (req[r].hasSecrets <=> (Detected(req[r]) /\ ~req[r].errored))

\* The user ignored every detected finding and the scan returned true.
C13_Witness ==
    \E r \in Requests :
        /\ req[r].returned
        /\ Detected(req[r])
        /\ req[r].remaining = <<>>
        /\ req[r].hasSecrets

\* C16: generateReport called with an empty list of findings writes no file:
\* the request that made the call has written no report, so the report file
\* is as it was.
C16_EmptyReportWritesNothing ==
    \A r \in Requests :
        (req[r].generated.called /\ req[r].generated.secrets = <<>>) =>
            /\ ~req[r].written.written
            /\ reportFile # NoReport => reportFile.secrets # <<>>

\* generateReport was called with an empty list (every finding was ignored)
\* and returned.
C16_Witness ==
    \E r \in Requests :
        /\ req[r].pc = "done"
        /\ req[r].generated.called
        /\ req[r].generated.secrets = <<>>
        /\ Detected(req[r])

\* The logMessage calls of q before position n.
Before(q, n) == SubSeq(q.logged, 1, n - 1)

\* C17: a failure inside report generation is caught and logged and does not
\* change the outcome: the scan still returns true, raises no scan error, and
\* the warning line of each (remaining) detected secret was logged before
\* the error line.
C17_ReportFailureKeepsResult ==
    \A r \in Requests :
        LET q == req[r]
        IN  q.generated.failed =>
                /\ q.returned
                /\ q.hasSecrets
                /\ ~q.errored
                /\ \E n \in 1..Len(q.logged) :
                      /\ q.logged[n] = [message |-> ReportErrorMessage(ReportError),
                                        level |-> "error"]
                      /\ \A j \in 1..Len(q.remaining) :
                            [message |-> SecretDetectedMessage(q.remaining[j]),
                             level |-> "warning"] \in Range(Before(q, n))

\* Report generation failed for a scan that detected a secret.
C17_Witness ==
    \E r \in Requests :
        /\ req[r].generated.failed
        /\ req[r].remaining # <<>>
        /\ req[r].returned

\* C18: for each accepted request the log gets the 'Scan started' separator
\* before any file is scanned and then a completion line that states the
\* result: 'Exposed secrets found.' exactly when secrets were detected, and
\* 'No secrets detected.' only when the scan ran and detected none (not after
\* a scan error and not without a workspace).
C18_CompletionLineStatesResult ==
    \A r \in Requests :
        LET q == req[r]
        IN  /\ (q.pc \in ActivePcs \/ q.returned) =>
                  /\ q.logged # <<>>
                  /\ q.logged[1] = [message |-> ScanStarted, level |-> "info"]
            /\ q.reads # <<>> => q.logged # <<>>
            /\ (q.returned /\ q.pc = "done") =>
                  /\ LastLogged(q).message \in {CompletedFound, CompletedNone}
                  /\ LastLogged(q).message = CompletedFound <=> Detected(q)
                  /\ LastLogged(q).message = CompletedNone =>
                        /\ q.handled.called
                        /\ q.handled.secrets = <<>>
                        /\ ~q.errored

(***************************************************************************)
(* SpecScanner: the module secretPatterns is evaluated with the user's     *)
(* customPatterns, then one file is scanned and its issues are added to    *)
(* the scan's secretsDetected.                                             *)
(***************************************************************************)
Key1 == <<"A", "K", "I", "A", "1", "2", "3", "4", "5", "6", "7", "8", "9", "0",
          "A", "B", "C", "D", "E", "F">>
Key0 == <<"A", "K", "I", "A", "0", "1", "2", "3", "4", "5", "6", "7", "8", "9",
          "A", "B", "C", "D", "E", "F">>

OpenLine == <<"/", "*">>
CloseLine == <<"*", "/">>
SlashSecretLine == <<"/", "/", "s", "e", "c", "r", "e", "t", "=">> \o Key0
HashLine == <<" ", " ", "#", " ">> \o Key1
TripleSingleLine == Key1 \o <<"'", "'", "'">>
TripleDoubleLine == <<"\"", "\"", "\"">> \o Key1
InlineBlockLine == <<"x", " ", "/", "*", " ">> \o Key1
CloudinaryLine == <<"c", "l", "o", "u", "d", "i", "n", "a", "r", "y", ":", "/", "/",
                    "a", ":", "b">>
TokenLine == <<"t", "o", "k", "e", "n", "=", "a", "b", "c", "d", "e", "f", "g", "h">>
Id4Line == <<"i", "d", "1", "2">>
Id5Line == <<"i", "d", "1", "2", "3">>
Id6Line == <<"i", "d", "1", "2", "3", "4">>
TwoKeysLine == Key1 \o <<" ">> \o Key0
KeyLine == <<"k", "e", "y", "=", "a", "b", "c", "d", "e", "f">>

\* The lines of the files scanned, the comment and string lines first.
BodyLineList == <<SlashSecretLine, HashLine, TripleSingleLine, TripleDoubleLine,
                  InlineBlockLine, Key1, CloudinaryLine, TokenLine, Id4Line, Id5Line,
                  Id6Line, TwoKeysLine, KeyLine>>
BodyLines == Range(BodyLineList)

\* The entries of choices whose index is in S, in order.
RECURSIVE Chosen(_, _, _)
Chosen(choices, S, j) ==
    IF j > Len(choices) THEN <<>>
    ELSE (IF j \in S THEN <<choices[j]>> ELSE <<>>) \o Chosen(choices, S, j + 1)

\* The files scanned: up to MaxLines different lines of BodyLineList in the
\* order of the list, a line twice, and a line between a line that opens a
\* block comment and a line that closes one.
FileLines ==
    {Chosen(BodyLineList, S, 1) :
        S \in {T \in SUBSET (1..Len(BodyLineList)) :
                  Cardinality(T) \in 1..MaxLines}}
    \cup {<<line, line>> : line \in BodyLines}
    \cup {<<OpenLine, line, CloseLine>> : line \in BodyLines}

UserPatternChoices == <<TokenPattern, IdPattern, OptionalPattern, BadPattern>>

Settings ==
    {Chosen(UserPatternChoices, S, 1) :
        S \in {T \in SUBSET (1..Len(UserPatternChoices)) : Cardinality(T) <= MaxUserPatterns}}

ScannedPath == FilePath(1)

SpecScannerInit ==
    /\ CacheInit
    /\ LogInit
    /\ ScanIdleInit
    /\ RedactIdleInit
    /\ customPatterns \in Settings
    /\ secretPatterns = NotLoaded
    /\ content \in {join(ls) : ls \in FileLines}
    /\ scanResult = NoScan

\* The first import of detectors/secretPatterns evaluates the module.
LoadPatterns ==
    /\ secretPatterns.state = "unloaded"
    /\ secretPatterns' = LoadSecretPatterns(customPatterns)
    /\ UNCHANGED <<customPatterns, content, scanResult>>
    /\ UNCHANGED <<cacheVars, fsVars, writerVars, scanVars, redactVars>>

\* The file loop of scanWorkspace (of either revision) for one file whose
\* text was read: scanFileContent is called and runs to its return; the loop
\* stands at `await scanFileContent(...)` with nothing added yet.
ScanFile ==
    /\ secretPatterns.state = "loaded"
    /\ ~scanResult.scanned
    /\ LET run == ForEachPattern(NoFindings, content, secretPatterns.patterns, 1,
                                 ScannedPath)
       IN  \E rev \in {"old", "new"} :
               scanResult' = [NoScan EXCEPT !.scanned = TRUE, !.rev = rev,
                                            !.issues = run.detectedSecrets,
                                            !.caught = run.caught]
    /\ UNCHANGED <<customPatterns, secretPatterns, content>>
    /\ UNCHANGED <<cacheVars, fsVars, writerVars, scanVars, redactVars>>

\* The loop is resumed with the issues scanFileContent resolved to and adds
\* them to secretsDetected.
AddIssues ==
    /\ scanResult.scanned
    /\ ~scanResult.done
    /\ scanResult' = [scanResult EXCEPT
                         !.done = TRUE,
                         !.secretsDetected =
                             IssuesAdded(scanResult.rev, content, scanResult.issues)]
    /\ UNCHANGED <<customPatterns, secretPatterns, content>>
    /\ UNCHANGED <<cacheVars, fsVars, writerVars, scanVars, redactVars>>

NextScanner ==
    \/ LoadPatterns
    \/ ScanFile
    \/ AddIssues

SpecScanner == SpecScannerInit /\ [][NextScanner]_vars

(***************************************************************************)
(* Claims about the registry and the content scanner (under SpecScanner).  *)
(***************************************************************************)
ContentLines == split(content, {"\n"})

\* The line-local rule of the claims: the trimmed line starts with // or #,
\* or the line holds a block-comment or triple-quote delimiter.
Suppressed(line) ==
    \/ startsWith(trim(line), <<"/", "/">>)
    \/ startsWith(trim(line), <<"#">>)
    \/ \E d \in {<<"/", "*">>, <<"*", "/">>, <<"\"", "\"", "\"">>, <<"'", "'", "'">>} :
          Contains(line, d)

\* The texts the registry's expressions match on line n (the match and its
\* capture groups), for a line the scanner does not skip.
\* The elements of the match array of registry entry p on line n that the
\* forEach reaches: those before the first undefined element.
TextsOf(p, n) ==
    IF Suppressed(ContentLines[n]) THEN {}
    ELSE LET ms == match(ContentLines[n], secretPatterns.patterns[p].regex)
         IN  {ms[j] : j \in {k \in 1..Len(ms) : \A i \in 1..k : ms[i] # Undefined}}

MatchTexts(n) == UNION {TextsOf(p, n) : p \in 1..Len(secretPatterns.patterns)}

\* The findings of the scan on line n, without their line number.
OnLine(issues, n) ==
    {[secret |-> f.secret, patternName |-> f.patternName] :
        f \in {g \in Range(issues) : g.lineNumber = n}}

\* C11: the scanner returns a finding on line n only if line n is not
\* suppressed by the line-local rule, and what it returns for line n depends
\* on the text of line n alone: a line that is an access key is reported
\* whatever the lines around it are, also between a /* line and a */ line.
C11_LineLocalSuppression ==
    scanResult.scanned =>
        /\ \A f \in Range(scanResult.issues) : ~Suppressed(ContentLines[f.lineNumber])
        /\ \A n \in 1..Len(ContentLines) :
              /\ OnLine(scanResult.issues, n) =
                     OnLine(scanFileContentText(ContentLines[n], ScannedPath,
                                                secretPatterns.patterns), 1)
              /\ ContentLines[n] = Key1 =>
                     \E f \in Range(scanResult.issues) :
                         f.lineNumber = n /\ f.secret = Key1

\* An access key on the line between a /* line and a */ line was reported,
\* and nothing else was.
C11_Witness ==
    /\ scanResult.scanned
    /\ ContentLines = <<OpenLine, Key1, CloseLine>>
    /\ Len(scanResult.issues) = 1
    /\ scanResult.issues[1].lineNumber = 2

\* C12: a file whose only line is an access key (AKIA and 16 characters of
\* [0-9A-Z]), scanned with the built-in registry, gives exactly one finding,
\* named 'Amazon AWS Access Key ID', on line 1.
C12_OneFindingForAccessKey ==
    (scanResult.scanned /\ customPatterns = <<>> /\ content = Key1) =>
        /\ Len(scanResult.issues) = 1
        /\ scanResult.issues[1].patternName = "Amazon AWS Access Key ID"
        /\ scanResult.issues[1].lineNumber = 1
        /\ scanResult.issues[1].secret = Key1

\* The file with the one line AKIA1234567890ABCDEF was scanned with the
\* built-in registry, which holds two entries with the expression it matches.
C12_Witness ==
    /\ scanResult.scanned
    /\ customPatterns = <<>>
    /\ content = Key1
    /\ Cardinality({p \in 1..Len(secretPatterns.patterns) :
                       match(Key1, secretPatterns.patterns[p].regex) # <<>>}) = 2

\* The user's entries whose source compiles, as registry entries.
ValidUserPatterns ==
    MapUserPatterns(SelectSeq(customPatterns, LAMBDA u : RegExpOf(u.regex).ok))

\* C14: when a customPatterns entry does not compile, that entry alone is
\* left out: once the registry is constructed it holds every built-in
\* pattern and every valid user pattern.
C14_InvalidPatternExcluded ==
    secretPatterns.state # "unloaded" =>
        /\ secretPatterns.state = "loaded"
        /\ secretPatterns.patterns = BuiltinPatterns \o ValidUserPatterns

\* C15: the findings a scan accumulates hold no two findings equal on
\* (patternName, lineNumber, filePath).
C15_NoTwoFindingsSameTriple ==
    scanResult.done =>
        \A j, k \in 1..Len(scanResult.secretsDetected) :
            (/\ scanResult.secretsDetected[j].patternName =
                    scanResult.secretsDetected[k].patternName
             /\ scanResult.secretsDetected[j].lineNumber =
                    scanResult.secretsDetected[k].lineNumber
             /\ scanResult.secretsDetected[j].filePath =
                    scanResult.secretsDetected[k].filePath) => j = k

\* Every finding comes from a match of at least least characters on its
\* line, and every match of at least that length gave a finding on its line.
KeptFrom(least) ==
    scanResult.scanned =>
        /\ \A f \in Range(scanResult.issues) :
              \E m \in MatchTexts(f.lineNumber) : Len(m) >= least /\ f.secret = SecretOf(m)
        /\ \A n \in 1..Len(ContentLines) :
              \A m \in MatchTexts(n) :
                  Len(m) >= least =>
                      \E f \in Range(scanResult.issues) :
                          f.lineNumber = n /\ f.secret = SecretOf(m)

\* C19 as stated: a match is rejected exactly when it is shorter than 5
\* characters: a match of 5 or more is kept, one of 4 or fewer gives no
\* finding.
C19_RejectedBelowFive == KeptFrom(5)

\* C19 amended: a match is rejected exactly when it is shorter than 6
\* characters: a match of 6 or more is kept, one of 5 or fewer gives no
\* finding.
C19_RejectedBelowSix == KeptFrom(6)

\* A match of 5 characters gave no finding and a match of 6 characters did.
C19_Witness ==
    /\ scanResult.scanned
    /\ ContentLines = <<Id5Line, Id6Line>>
    /\ Id5Line \in MatchTexts(1)
    /\ Id6Line \in MatchTexts(2)
    /\ \A f \in Range(scanResult.issues) : f.lineNumber = 2

\* The secret the claim derives from a matched text: the whole text after
\* the first = or :, trimmed, or the matched text if it has no separator.
AfterFirstSeparator(m) ==
    LET j == IndexOfAny(m, {"=", ":"}, 1)
    IN  IF j = 0 THEN m ELSE trim(SubSeq(m, j + 1, Len(m)))

\* C20: the secret of every finding is the text after the first separator of
\* the match it comes from (later separators and the text after them
\* included), or the whole match if the match has no separator.
C20_SecretAfterFirstSeparator ==
    scanResult.scanned =>
        \A f \in Range(scanResult.issues) :
            \E m \in MatchTexts(f.lineNumber) :
                LongEnough(m) /\ f.secret = AfterFirstSeparator(m)

\* The texts that give a finding: long enough, with a secret that is not empty.
Reportable(m) == LongEnough(m) /\ SecretOf(m) # <<>>

\* C21: every occurrence of a pattern's expression on a line that is not
\* suppressed, if long enough, gives a finding on that line: a line with two
\* different occurrences of the same pattern gives a finding for each.
C21_EveryOccurrenceGivesFinding ==
    scanResult.scanned =>
        \A p \in 1..Len(secretPatterns.patterns), n \in 1..Len(ContentLines) :
            ~Suppressed(ContentLines[n]) =>
                \A m \in AllOccurrences(secretPatterns.patterns[p].regex.pieces,
                                        ContentLines[n], 0) :
                    Reportable(m) =>
                        \E f \in Range(scanResult.issues) :
                            f.lineNumber = n /\ f.secret = SecretOf(m)

\* The findings of the scan on line n with secret s, by position.
FindingsWith(n, s) ==
    {i \in 1..Len(scanResult.issues) :
        scanResult.issues[i].lineNumber = n /\ scanResult.issues[i].secret = s}

\* C22 as stated: deduplication is per pattern pass: for each pattern, line
\* and secret, the findings named after the pattern are as many as the
\* different texts the pattern matched there, whatever other patterns matched.
C22_DedupPerPatternPass ==
    scanResult.scanned =>
        \A p \in 1..Len(secretPatterns.patterns), n \in 1..Len(ContentLines) :
            \A m \in {t \in TextsOf(p, n) : Reportable(t)} :
                Cardinality({i \in FindingsWith(n, SecretOf(m)) :
                                scanResult.issues[i].patternName =
                                    secretPatterns.patterns[p].name})
                    = Cardinality({t \in TextsOf(p, n) :
                                      Reportable(t) /\ SecretOf(t) = SecretOf(m)})

\* The first registry entry, in registry order, that matches text m on line n.
FirstPatternOf(m, n) ==
    CHOOSE p \in 1..Len(secretPatterns.patterns) :
        /\ m \in TextsOf(p, n)
        /\ \A q \in 1..(p - 1) : m \notin TextsOf(q, n)

\* C22 as amended: deduplication is per file scan: for each line and secret
\* the findings are as many as the different texts matched there by any
\* pattern, and the finding of a text is named after the first pattern, in
\* registry order, that matched it.
C22_DedupPerFileScan ==
    scanResult.scanned =>
        \A n \in 1..Len(ContentLines) :
            \A m \in {t \in MatchTexts(n) : Reportable(t)} :
                /\ Cardinality(FindingsWith(n, SecretOf(m)))
                       = Cardinality({t \in MatchTexts(n) :
                                         Reportable(t) /\ SecretOf(t) = SecretOf(m)})
                /\ \E i \in FindingsWith(n, SecretOf(m)) :
                       scanResult.issues[i].patternName =
                           secretPatterns.patterns[FirstPatternOf(m, n)].name

\* Two lines hold the same access key, which two registry entries match:
\* the scan gave one finding for each line, named after the first entry.
C22_Witness ==
    /\ scanResult.scanned
    /\ ContentLines = <<Key1, Key1>>
    /\ Cardinality({p \in 1..Len(secretPatterns.patterns) : Key1 \in TextsOf(p, 1)}) = 2
    /\ Len(scanResult.issues) = 2
    /\ \A i \in 1..2 : /\ scanResult.issues[i].lineNumber = i
                        /\ scanResult.issues[i].patternName = "Amazon AWS Access Key ID"

\* C23: a failure of one pattern on one line leaves no finding of that
\* pattern on that line.
C23_NoFindingForFailingPair ==
    scanResult.scanned =>
        \A pair \in scanResult.caught :
            \A f \in Range(scanResult.issues) :
                ~(f.patternName = pair[1] /\ f.lineNumber = pair[2])

SpecRedactInit ==
    /\ CacheInit
    /\ LogInit
    /\ ScanIdleInit
    /\ RedactInit
    /\ ScannerIdleInit

NextRedact ==
    \/ GenerateReport
    \/ LogFindingObject
    \/ LogDetected
    \/ SaveMetadata

SpecRedact == SpecRedactInit /\ [][NextRedact]_vars

(***************************************************************************)
(* Claims about redaction (checked under SpecRedact).                      *)
(***************************************************************************)

\* C5: the secret of a finding, whatever its length, never appears in full
\* in a line given to the log, in the report document or in the persisted
\* state; the report shows getPartialSecret(secret), and that form does not
\* contain the whole secret.
C5_SecretNeverInFull ==
    /\ \A i \in 1..Len(logTexts) : ~Contains(logTexts[i], finding.secret)
    /\ \A i \in 1..Len(reportDoc) : ~Contains(reportDoc[i], finding.secret)
    /\ \A i \in 1..Len(savedState) : ~Contains(savedState[i], finding.secret)
    /\ reportDoc # <<>> => reportDoc[3] = getPartialSecret(finding.secret)

SpecReportInit ==
    /\ CacheInit
    /\ LogInit
    /\ ScanIdleInit
    /\ ScannerIdleInit
    /\ finding = RedactFinding(<<"x">>)
    /\ reportDoc = <<>>
    /\ logTexts = <<>>
    /\ savedState = <<>>
    /\ reportSecrets \in UNION {[1..n -> ReportFindings] : n \in 1..MaxFindings}
    /\ report = NoTables

NextReport == GenerateReportTables

SpecReport == SpecReportInit /\ [][NextReport]_vars

\* C24: in a report every finding is High exactly when its secret is longer
\* than 50 characters and Medium otherwise, its risk score is twice the
\* length of the secret, and in the summary row of every file High plus
\* Medium is the number of findings of the file and Low is 0.
C24_SeverityAndSummary ==
    report.done =>
        /\ \A k \in 1..Len(report.details) :
              \A f \in Range(report.details[k]) :
                  /\ f.severity = IF Len(f.secret) > 50 THEN <<"H", "i", "g", "h">>
                                  ELSE <<"M", "e", "d", "i", "u", "m">>
                  /\ f.riskScore = 2 * Len(f.secret)
        /\ \A k \in 1..Len(report.summary) :
              LET row == report.summary[k]
              IN  /\ row.count = Cardinality({i \in 1..Len(reportSecrets) :
                                                reportSecrets[i].filePath = row.filePath})
                  /\ row.High + row.Medium = row.count
                  /\ row.Low = 0
                  /\ row.High = Cardinality({i \in 1..Len(reportSecrets) :
                                               /\ reportSecrets[i].filePath = row.filePath
                                               /\ Len(reportSecrets[i].secret) > 50})
        /\ \A i \in 1..Len(reportSecrets) :
              \E k \in 1..Len(report.summary) : report.summary[k].filePath = reportSecrets[i].filePath

\* A report of two files: one has a secret of 50 characters and one of 51,
\* counted Medium and High, the other a single short secret.
C24_Witness ==
    /\ report.done
    /\ Len(report.summary) = 2
    /\ [i \in 1..Len(reportSecrets) |-> Len(reportSecrets[i].secret)] = <<50, 6, 51>>
    /\ report.summary[1].High = 1
    /\ report.summary[1].Medium = 1
    /\ report.summary[2].Medium = 1

(***************************************************************************)
(* SpecCache: a caller of isDuplicate in process 1.                        *)
(***************************************************************************)
Msg(i) == "msg" \o ToString(i)

\* The number of distinct messages inserted after the last insertion of
\* message, or -1 when message was never inserted.
DistinctSince(log, message) ==
    IF message \notin Range(log) THEN -1
    ELSE LET at == CHOOSE i \in 1..Len(log) :
                       /\ log[i] = message
                       /\ \A j \in (i+1)..Len(log) : log[j] # message
         IN  Cardinality({log[j] : j \in (at+1)..Len(log)})

\* The messages the caller passes: the next message never passed before, the
\* first two messages, and the message whose hash is the oldest in the cache.
CallCandidates ==
    {Msg(Cardinality(Range(insertLog)) + 1), Msg(1), Msg(2)}
    \cup {m \in Range(insertLog) :
             recentLogHashes[1] # <<>> /\ createHash(m) = Head(recentLogHashes[1])}

IsDuplicateCall(message) ==
    LET cache == recentLogHashes[1]
        ret == isDuplicate(cache, message)
    IN  /\ ret \/ Len(insertLog) < MaxInserts
        /\ recentLogHashes' = [recentLogHashes EXCEPT ![1] = CacheAfter(cache, message)]
        /\ insertLog' = IF ret THEN insertLog ELSE Append(insertLog, message)
        /\ hitLog' = IF ret THEN hitLog \cup {message} ELSE hitLog
        /\ lastCall' = [message |-> message, ret |-> ret, before |-> cache,
                        between |-> DistinctSince(insertLog, message)]
        /\ UNCHANGED <<fsVars, writerVars, scanVars, redactVars, scannerVars>>

NextCache == \E message \in CallCandidates : IsDuplicateCall(message)

SpecCacheInit ==
    /\ CacheInit
    /\ LogInit
    /\ ScanIdleInit
    /\ RedactIdleInit
    /\ ScannerIdleInit

SpecCache == SpecCacheInit /\ [][NextCache]_vars

(***************************************************************************)
(* SpecLog: every process calls logMessage; the processes (extension hosts *)
(* of several windows on one workspace folder) share the log file and the  *)
(* lock file, and each has its own recentLogHashes. A call is synchronous  *)
(* inside its process; the file system calls of different processes        *)
(* interleave, those of the rotation (existsSync, statSync, renameSync)    *)
(* as well as those of withFileLock.                                       *)
(***************************************************************************)
LogMessages == {"Found 1 files to scan.", "CipherScan extension activated."}
LogLevels == {"info", "debug"}

SpecLogInit ==
    /\ CacheInit
    /\ now = 0
    /\ workspaceOpen \in [Procs -> BOOLEAN]
    /\ logFile \in InitialLogFiles
    /\ archives = <<>>
    /\ lockFile = FALSE
    /\ wpc = [p \in Procs |-> "idle"]
    /\ wline = [p \in Procs |-> ""]
    /\ wcall = [p \in Procs |-> NoLogCall]
    /\ logCalls = 0
    /\ ScanIdleInit
    /\ RedactIdleInit
    /\ ScannerIdleInit

\* logMessage up to finalMessage (lines 110-121). Without a workspace folder
\* getLogFilePath returns '' and logMessage returns. getLogFilePath throws
\* when the directory .cipherscan is missing and cannot be created, and so
\* does logMessage, which calls it outside its try block. Otherwise the
\* clock is read for the timestamp of the line.
LogMessageBegin(p, message, level) ==
    /\ wpc[p] = "idle"
    /\ logCalls < MaxLogCalls
    /\ logCalls' = logCalls + 1
    /\ IF ~workspaceOpen[p]
       THEN /\ wcall' = [wcall EXCEPT ![p] = [NoLogCall EXCEPT !.done = TRUE]]
            /\ UNCHANGED <<now, wpc, wline>>
       ELSE \/ /\ wcall' = [wcall EXCEPT ![p] =
                                [NoLogCall EXCEPT !.asked = TRUE, !.failed = TRUE]]
               /\ UNCHANGED <<now, wpc, wline>>
            \/ \E t \in {now, now + 1} :
                  /\ t <= MaxClock
                  /\ now' = t
                  /\ wline' = [wline EXCEPT ![p] = FinalMessage(t, level, message)]
                  /\ wpc' = [wpc EXCEPT ![p] = "exists"]
                  /\ wcall' = [wcall EXCEPT ![p] = [NoLogCall EXCEPT !.asked = TRUE]]
    /\ UNCHANGED <<logFile, archives, lockFile, workspaceOpen, recentLogHashes>>
    /\ CacheIdle
    /\ UNCHANGED <<scanVars, redactVars, scannerVars>>

\* isDuplicate(finalMessage) (line 139), which ends the rotation part of a
\* call whose history so far is `call`: a duplicate ends the call, any other
\* line goes to withFileLock.
CheckDuplicate(p, call) ==
    LET dup == isDuplicate(recentLogHashes[p], wline[p])
    IN  /\ recentLogHashes' = [recentLogHashes EXCEPT ![p] = CacheAfter(@, wline[p])]
        /\ wpc' = [wpc EXCEPT ![p] = AfterDuplicateCheck(dup)]
        /\ wcall' = [wcall EXCEPT ![p] =
                         [call EXCEPT !.dup = dup,
                                      !.done = AfterDuplicateCheck(dup) = "idle"]]

\* fs.existsSync(logFilePath) of line 126: a missing log file counts as one
\* of size 0, which is not rotated.
ExistsLog(p) ==
    /\ wpc[p] = "exists"
    /\ IF logFile.exists
       THEN /\ wpc' = [wpc EXCEPT ![p] = "stat"]
            /\ UNCHANGED <<recentLogHashes, wcall>>
       ELSE CheckDuplicate(p, wcall[p])
    /\ UNCHANGED <<fsVars, workspaceOpen, wline, logCalls>>
    /\ CacheIdle
    /\ UNCHANGED <<scanVars, redactVars, scannerVars>>

\* fs.statSync(logFilePath) of line 126 and the test of line 127. When the
\* file is gone by now statSync throws; the catch block of logMessage
\* (line 144) prints the error and logMessage returns: the line is not
\* appended and isDuplicate is not called.
StatLog(p) ==
    /\ wpc[p] = "stat"
    /\ IF ~logFile.exists
       THEN /\ wpc' = [wpc EXCEPT ![p] = "idle"]
            /\ wcall' = [wcall EXCEPT ![p].statThrew = TRUE, ![p].done = TRUE]
            /\ UNCHANGED recentLogHashes
       ELSE IF NeedsRotation(logFile)
       THEN /\ wpc' = [wpc EXCEPT ![p] = "name"]
            /\ wcall' = [wcall EXCEPT ![p].size = FileSize(logFile)]
            /\ UNCHANGED recentLogHashes
       ELSE CheckDuplicate(p, [wcall[p] EXCEPT !.size = FileSize(logFile)])
    /\ UNCHANGED <<fsVars, workspaceOpen, wline, logCalls>>
    /\ CacheIdle
    /\ UNCHANGED <<scanVars, redactVars, scannerVars>>

\* The rotation, lines 128-129: the clock is read again, for the name of
\* the archive.
NameArchive(p) ==
    /\ wpc[p] = "name"
    /\ \E t \in {now, now + 1} :
          /\ t <= MaxClock
          /\ now' = t
          /\ wcall' = [wcall EXCEPT ![p].archive = ArchiveName(t)]
    /\ wpc' = [wpc EXCEPT ![p] = "rename"]
    /\ UNCHANGED <<logFile, archives, lockFile, recentLogHashes, workspaceOpen, wline,
                   logCalls>>
    /\ CacheIdle
    /\ UNCHANGED <<scanVars, redactVars, scannerVars>>

\* The rotation, lines 130-135: fs.renameSync gives the log file the name
\* that was made at line 129, whatever the log file is by now; an archive of
\* that name is replaced. When the file is gone by now renameSync throws,
\* which the inner catch block prints. The call goes on to isDuplicate
\* either way.
RenameLog(p) ==
    /\ wpc[p] = "rename"
    /\ IF logFile.exists
       THEN /\ archives' = RenameToArchive(archives, wcall[p].archive, logFile)
            /\ logFile' = NoFile
       ELSE UNCHANGED <<archives, logFile>>
    /\ CheckDuplicate(p, [wcall[p] EXCEPT !.rotated = logFile.exists])
    /\ UNCHANGED <<now, lockFile, workspaceOpen, wline, logCalls>>
    /\ CacheIdle
    /\ UNCHANGED <<scanVars, redactVars, scannerVars>>

\* withFileLock, one turn of the loop: fs.existsSync(lockFilePath).
CheckLock(p) ==
    /\ wpc[p] = "spin"
    /\ wpc' = [wpc EXCEPT ![p] = AfterExistsSync(lockFile)]
    /\ wcall' = [wcall EXCEPT ![p].waited = @ \/ lockFile,
                              ![p].done = AfterExistsSync(lockFile) = "idle"]
    /\ UNCHANGED <<fsVars, recentLogHashes, workspaceOpen, wline, logCalls>>
    /\ CacheIdle
    /\ UNCHANGED <<scanVars, redactVars, scannerVars>>

\* withFileLock: fse.ensureFileSync(lockFilePath); lockAcquired = true.
\* ensureFileSync returns also when the file exists by now, created by
\* another writer: created counts the lock files the call made itself, locks
\* the times it set lockAcquired. When ensureFileSync throws, the catch block
\* of the loop prints the error and the loop tests again.
CreateLock(p) ==
    /\ wpc[p] = "create"
    /\ \/ /\ lockFile' = TRUE
          /\ wpc' = [wpc EXCEPT ![p] = "locked"]
          /\ wcall' = [wcall EXCEPT ![p].locks = @ + 1,
                                    ![p].created = @ + (IF lockFile THEN 0 ELSE 1)]
       \/ /\ wpc' = [wpc EXCEPT ![p] = "spin"]
          /\ UNCHANGED <<lockFile, wcall>>
    /\ UNCHANGED <<now, logFile, archives, recentLogHashes, workspaceOpen, wline, logCalls>>
    /\ CacheIdle
    /\ UNCHANGED <<scanVars, redactVars, scannerVars>>

\* withFileLock: callback(), which is fs.appendFileSync(logFilePath, finalMessage).
RunCallback(p) ==
    /\ wpc[p] = "locked"
    /\ logFile' = AppendFile(logFile, wline[p])
    /\ wpc' = [wpc EXCEPT ![p] = AfterCallback(FALSE)]
    /\ wcall' = [wcall EXCEPT ![p].appended = @ + 1]
    /\ UNCHANGED <<now, archives, lockFile, recentLogHashes, workspaceOpen, wline, logCalls>>
    /\ CacheIdle
    /\ UNCHANGED <<scanVars, redactVars, scannerVars>>

\* withFileLock: finally fse.removeSync(lockFilePath); logMessage returns.
\* removeSync returns when there is no file to remove. When it throws, the
\* catch block around it prints the error: the lock file is left and
\* logMessage returns all the same.
RemoveLock(p) ==
    /\ wpc[p] = "release"
    /\ \/ /\ lockFile' = FALSE
          /\ wcall' = [wcall EXCEPT ![p].done = TRUE]
       \/ /\ lockFile
          /\ lockFile' = lockFile
          /\ wcall' = [wcall EXCEPT ![p].done = TRUE, ![p].removeThrew = TRUE]
    /\ wpc' = [wpc EXCEPT ![p] = "idle"]
    /\ UNCHANGED <<now, logFile, archives, recentLogHashes, workspaceOpen, wline, logCalls>>
    /\ CacheIdle
    /\ UNCHANGED <<scanVars, redactVars, scannerVars>>

NextLog ==
    \E p \in Procs :
        \/ \E message \in LogMessages, level \in LogLevels : LogMessageBegin(p, message, level)
        \/ ExistsLog(p)
        \/ StatLog(p)
        \/ NameArchive(p)
        \/ RenameLog(p)
        \/ CheckLock(p)
        \/ CreateLock(p)
        \/ RunCallback(p)
        \/ RemoveLock(p)

SpecLog == SpecLogInit /\ [][NextLog]_vars

(***************************************************************************)
(* SpecLock: withFileLock when the lock file is there before any writer    *)
(* (left behind by a process that died) and when the callback, the         *)
(* creation of the lock file or its removal throws.                        *)
(***************************************************************************)

\* withFileLock: callback() throws (fs.appendFileSync fails): nothing is
\* appended, the catch logs the error to the console.
CallbackThrows(p) ==
    /\ wpc[p] = "locked"
    /\ wpc' = [wpc EXCEPT ![p] = AfterCallback(TRUE)]
    /\ wcall' = [wcall EXCEPT ![p].threw = TRUE,
                              ![p].done = AfterCallback(TRUE) = "idle"]
    /\ UNCHANGED <<fsVars, recentLogHashes, workspaceOpen, wline, logCalls>>
    /\ CacheIdle
    /\ UNCHANGED <<scanVars, redactVars, scannerVars>>

\* Somebody outside the program deletes a lock file that no writer holds.
RemoveStaleLock ==
    /\ lockFile
    /\ \A p \in Procs : wpc[p] \notin {"locked", "release"}
    /\ lockFile' = FALSE
    /\ UNCHANGED <<now, logFile, archives, cacheVars, writerVars>>
    /\ UNCHANGED <<scanVars, redactVars, scannerVars>>

\* The clock has reached its bound: the calls fall in the same millisecond.
SpecLockInit ==
    /\ CacheInit
    /\ now = MaxClock
    /\ workspaceOpen = [p \in Procs |-> TRUE]
    /\ logFile = NoFile
    /\ archives = <<>>
    /\ lockFile \in BOOLEAN
    /\ wpc = [p \in Procs |-> "idle"]
    /\ wline = [p \in Procs |-> ""]
    /\ wcall = [p \in Procs |-> NoLogCall]
    /\ logCalls = 0
    /\ ScanIdleInit
    /\ RedactIdleInit
    /\ ScannerIdleInit

\* The log file of SpecLock is small: no call gets to the rotation.
WriterStep(p) ==
    \/ ExistsLog(p)
    \/ StatLog(p)
    \/ CheckLock(p)
    \/ CreateLock(p)
    \/ RunCallback(p)
    \/ CallbackThrows(p)
    \/ RemoveLock(p)

NextLock ==
    \/ \E p \in Procs :
          \/ LogMessageBegin(p, "CipherScan extension activated.", "info")
          \/ WriterStep(p)
    \/ RemoveStaleLock

SpecLock == SpecLockInit /\ [][NextLock]_vars

\* A writer that is inside logMessage goes on running: its loop keeps
\* testing and its synchronous calls return. Nothing makes anybody delete a
\* lock file left behind, and nothing makes a writer call logMessage.
SpecLockFair == SpecLock /\ \A p \in Procs : WF_vars(WriterStep(p))

(***************************************************************************)
(* Claims about withFileLock (checked under SpecLock and SpecLockFair).    *)
(***************************************************************************)

\* C26: withFileLock runs the callback only after creating the lock file
\* itself (the file was not there when the call made it), and it waits
\* without a timeout: a call that finds the lock file tests again and neither
\* returns nor runs the callback while the file is there; a waiting call
\* returns unless the lock file stays for ever.
C26_WaitsForTheLock ==
    /\ [](\A p \in Procs :
            /\ wpc[p] \in {"locked", "release"} => wcall[p].created >= 1
            /\ (wcall[p].appended > 0 \/ wcall[p].threw) => wcall[p].created >= 1)
    /\ [][\A p \in Procs :
            (wpc[p] = "spin" /\ lockFile /\ lockFile') =>
                (wpc'[p] = "spin" /\ wcall'[p].appended = wcall[p].appended)]_vars
    /\ \A p \in Procs :
            (wpc[p] = "spin") ~> (wpc[p] = "idle" \/ [](lockFile /\ wpc[p] = "spin"))

\* A call found the lock file that was there from the start, waited, and
\* after the file was deleted created the lock, appended and returned.
C26_Witness ==
    \E p \in Procs :
        /\ wcall[p].waited
        /\ wcall[p].created = 1
        /\ wcall[p].appended = 1
        /\ wcall[p].done
        /\ \A q \in Procs \ {p} : ~wcall[q].asked

\* C28: withFileLock removes the lock file on every path, also when the
\* callback throws, and the error is not propagated: the step that returns
\* from withFileLock leaves no lock file, and when every call that took the
\* lock has returned there is no lock file.
C28_LockReleasedOnEveryPath ==
    /\ [][\A p \in Procs :
            (wpc[p] \in {"locked", "release"} /\ wpc'[p] = "idle") => ~lockFile']_vars
    /\ []((/\ \A p \in Procs : wpc[p] = "idle"
           /\ \E p \in Procs : wcall[p].locks >= 1) => ~lockFile)
    /\ [](\A p \in Procs : wcall[p].threw => wpc[p] \in {"release", "idle"})

\* The callback of the only writer threw, the call returned all the same
\* and left no lock file.
C28_Witness ==
    \E p \in Procs :
        /\ wcall[p].threw
        /\ wcall[p].done
        /\ wpc[p] = "idle"
        /\ ~lockFile
        /\ \A q \in Procs \ {p} : ~wcall[q].asked

(***************************************************************************)
(* Claims about the log sink (checked under SpecLog).                      *)
(***************************************************************************)

\* C9: log writes are mutually exclusive: at most one writer is inside the
\* callback of withFileLock (has acquired the lock and not yet released it)
\* at any time.
C9_MutualExclusion ==
    Cardinality({p \in Procs : wpc[p] \in {"locked", "release"}}) <= 1

\* C25: a logMessage call renames the log file exactly when the file is
\* larger than 1 MiB at the call, so the active log file was never larger
\* than 1 MiB before the last line it holds was appended, and every archive
\* is a log file that had grown beyond 1 MiB.
C25_RotationBoundsLogFile ==
    /\ \A p \in Procs :
          (wcall[p].asked /\ wpc[p] \notin {"exists", "stat", "name", "rename"}) =>
              (wcall[p].rotated <=> wcall[p].size > maxLogSize)
    /\ logFile.lines # <<>> =>
          logFile.base + SumLen(SubSeq(logFile.lines, 1, Len(logFile.lines) - 1))
              <= maxLogSize
    /\ \A n \in 1..Len(archives) : FileSize(archives[n].file) > maxLogSize

\* C29: the rotation is under the same exclusion as the appends: no call
\* renames the log file while another writer holds the lock, and between
\* the size check of a call and its append no other writer appends.
C29_RotationUnderLock ==
    [][\A p \in Procs :
          /\ (wpc[p] = "rename" /\ archives' # archives /\ wpc'[p] # "rename") =>
                 \A q \in Procs \ {p} : wpc[q] \notin {"locked", "release"}
          /\ wpc[p] \in {"stat", "name", "rename", "spin", "create", "locked"} =>
                 \A q \in Procs \ {p} : logFile' = logFile \/ wpc[q] # "locked"]_vars

\* C10: a logMessage call whose formatted line the deduplication cache
\* reported as a duplicate has appended nothing and never acquired the lock;
\* a call whose line was not a duplicate has appended exactly one line.
C10_DuplicateSkipsAppend ==
    \A p \in Procs :
        (wcall[p].asked /\ wcall[p].done) =>
            IF wcall[p].dup
            THEN wcall[p].appended = 0 /\ wcall[p].locks = 0
            ELSE wcall[p].appended = 1

\* A process has returned from a logMessage call that was a duplicate, after
\* an earlier call of it had appended the same line.
C10_Witness ==
    \E p \in Procs :
        /\ wcall[p].asked /\ wcall[p].done /\ wcall[p].dup
        /\ logFile.exists
        /\ wline[p] \in Range(logFile.lines)

(***************************************************************************)
(* Claims about the deduplication cache (checked under SpecCache).         *)
(***************************************************************************)

\* C6: after any sequence of isDuplicate calls the cache holds at most
\* MAX_LOG_CACHE (100) hashes whenever a call has returned.
C6_CacheBounded == \A p \in Procs : Len(recentLogHashes[p]) <= MAX_LOG_CACHE

\* The cache is full and an eviction has happened.
C6_Witness ==
    /\ Len(recentLogHashes[1]) = MAX_LOG_CACHE
    /\ Len(insertLog) > MAX_LOG_CACHE

\* C7: a call with a message never passed before returns false; a call with a
\* message passed before, with fewer than 100 other distinct messages
\* inserted since, returns true; and a call that returns true leaves the
\* cache and its order unchanged.
C7_TwiceSameMessage ==
    lastCall # NoCall =>
        /\ lastCall.between = -1 => ~lastCall.ret
        /\ (lastCall.between >= 0 /\ lastCall.between < MAX_LOG_CACHE) => lastCall.ret
        /\ lastCall.ret => recentLogHashes[1] = lastCall.before

\* The second call of a message came after 99 other insertions, returned true
\* and found a full cache.
C7_Witness ==
    /\ lastCall # NoCall
    /\ lastCall.ret
    /\ lastCall.between = MAX_LOG_CACHE - 1
    /\ Len(lastCall.before) = MAX_LOG_CACHE

\* C8: eviction is first-in-first-out by insertion: the cache always holds
\* exactly the last min(100, n) inserted messages in insertion order, whatever
\* entries were hit in between; so after 101 distinct messages exactly the
\* first one is gone (it is new again) and messages 2..101 are duplicates.
C8_FifoEviction ==
    LET cache == recentLogHashes[1]
        n == Len(insertLog)
        kept == IF n > MAX_LOG_CACHE THEN MAX_LOG_CACHE ELSE n
    IN  /\ Len(cache) = kept
        /\ \A i \in 1..kept : cache[i] = createHash(insertLog[n - kept + i])
        /\ (n = MAX_LOG_CACHE + 1 /\ \A i \in 1..n : insertLog[i] = Msg(i)) =>
              /\ ~isDuplicate(cache, Msg(1))
              /\ \A i \in 2..n : isDuplicate(cache, Msg(i))

\* 101 distinct messages were inserted, the first was hit as a duplicate
\* while it was in the cache, and it has been evicted all the same.
C8_Witness ==
    /\ Len(insertLog) = MAX_LOG_CACHE + 1
    /\ \A i \in 1..Len(insertLog) : insertLog[i] = Msg(i)
    /\ Msg(1) \in hitLog
    /\ ~isDuplicate(recentLogHashes[1], Msg(1))

====
